---------------------------- MODULE Spec2Model ----------------------------
(***************************************************************************)
(* A model of the AGL Unreal SDK: the client facade (UAGLClient), its      *)
(* three service clients (UAGLEmotionService, UAGLDialogueService,         *)
(* UAGLMemoryService), the HTTP requests they dispatch and the completion  *)
(* continuations that interpret the transport's answer.                    *)
(***************************************************************************)
EXTENDS Integers, Sequences, FiniteSets, TLC

(***************************************************************************)
(* Bounds of the model.                                                    *)
(***************************************************************************)
\* operation calls issued in one behaviour of Spec
MaxCalls == 2
\* operation calls issued in one behaviour of SpecClient
MaxClientCalls == 1
\* Initialize calls in one behaviour of SpecClient and SpecFacade, those on
\* the facade and those a caller makes on a service client together
\* operation calls in a behaviour of SpecRequests
MaxRequests == 1

MaxInits == 2

(***************************************************************************)
(* JSON values as the engine's FJsonValue: a tag and a payload.  A body     *)
(* that is not parseable JSON is the value JInvalid.                       *)
(***************************************************************************)
JS(s) == [t |-> "string", v |-> s]
JN(n) == [t |-> "number", v |-> n]
JB(b) == [t |-> "bool", v |-> b]
JA(a) == [t |-> "array", v |-> a]
JO(o) == [t |-> "object", v |-> o]
JInvalid == [t |-> "invalid", v |-> ""]

EmptyObject == [k \in {} |-> JInvalid]

\* FJsonObject::SetStringField / SetBoolField / SetNumberField / SetObjectField
SetField(obj, key, val) ==
    [k \in (DOMAIN obj) \cup {key} |-> IF k = key THEN val ELSE obj[k]]

\* FJsonSerializer::Deserialize(Reader, TSharedPtr<FJsonObject>&), given what
\* the reader made of the text: succeeds only for a parseable text whose
\* top-level value is an object
DeserializeOk(json) == json.t = "object"

\* FString::FromInt and the %d of FString::Printf
Digit(d) == CASE d = 0 -> "0" [] d = 1 -> "1" [] d = 2 -> "2" [] d = 3 -> "3"
              [] d = 4 -> "4" [] d = 5 -> "5" [] d = 6 -> "6" [] d = 7 -> "7"
              [] d = 8 -> "8" [] d = 9 -> "9"

RECURSIVE Decimal(_)
Decimal(n) == IF n < 10 THEN Digit(n) ELSE Decimal(n \div 10) \o Digit(n % 10)

FromInt(n) == IF n < 0 THEN "-" \o Decimal(0 - n) ELSE Decimal(n)

\* FString::IsNumeric, FCString::Atod and FString::ToBool, on the strings the
\* model draws as JSON values
IsNumeric(s) == s \in {"7"}
Atod(s) == CASE s = "7" -> 7
ToBool(s) == s \in {"true", "yes", "on"} \/ (IsNumeric(s) /\ Atod(s) # 0)

\* FJsonValue::TryGetString / TryGetNumber / TryGetBool: whether the value
\* gives one, and which.  The scalar values convert into one another (a
\* number gives its text, a boolean "true"/"false" and 1/0, a string its
\* number when it is numeric and its ToBool); an array or an object gives
\* none.
CanGetString(val) == val.t \in {"string", "number", "bool"}
AsString(val) ==
    CASE val.t = "string" -> val.v
      [] val.t = "number" -> FromInt(val.v)
      [] val.t = "bool" -> IF val.v THEN "true" ELSE "false"

CanGetNumber(val) ==
    \/ val.t \in {"number", "bool"}
    \/ val.t = "string" /\ IsNumeric(val.v)
AsNumber(val) ==
    CASE val.t = "number" -> val.v
      [] val.t = "bool" -> IF val.v THEN 1 ELSE 0
      [] val.t = "string" -> Atod(val.v)

CanGetBool(val) == val.t \in {"string", "number", "bool"}
AsBool(val) ==
    CASE val.t = "bool" -> val.v
      [] val.t = "number" -> val.v # 0
      [] val.t = "string" -> ToBool(val.v)

\* FJsonObject::TryGetArrayField / TryGetObjectField: the key is present
\* with a value of the type
HasField(obj, key, ty) == key \in DOMAIN obj /\ obj[key].t = ty

\* FJsonObject::TryGetStringField / TryGetNumberField / TryGetBoolField: the
\* field is written when the key is present and its value gives one
HasString(obj, key) == key \in DOMAIN obj /\ CanGetString(obj[key])
TryGetStringField(obj, key, cur) ==
    IF HasString(obj, key) THEN AsString(obj[key]) ELSE cur
TryGetNumberField(obj, key, cur) ==
    IF key \in DOMAIN obj /\ CanGetNumber(obj[key]) THEN AsNumber(obj[key]) ELSE cur
TryGetBoolField(obj, key, cur) ==
    IF key \in DOMAIN obj /\ CanGetBool(obj[key]) THEN AsBool(obj[key]) ELSE cur

MemoryJson ==
    JO([id |-> JS("mem-1"), playerId |-> JS("player-123"), type |-> JS("achievement"),
        content |-> JS("Won first match"), emotion |-> JS("proud"),
        importance |-> JN(8), context |-> JO([map |-> JS("arena")]),
        createdAt |-> JS("2024-01-01T00:00:00Z")])

\* a body that is well formed for every operation: it holds the keys of the
\* emotion, dialogue, memory, search and listing answers
WellFormedBody ==
    JO(MemoryJson.v @@
       [intensity |-> JN(1), confidence |-> JN(1), action |-> JS("cheer"),
        reasoning |-> JS("win streak"), method |-> JS("rule"), cost |-> JN(2),
        cache_hit |-> JB(TRUE), latency_ms |-> JN(15),
        dialogue |-> JS("Great job!"), used_special_case |-> JB(TRUE),
        memory_count |-> JN(1),
        special_case_reasons |-> JA(<<JS("mvp"), JS("streak")>>),
        results |-> JA(<<JO([similarityScore |-> JN(1), memory |-> MemoryJson])>>),
        memories |-> JA(<<MemoryJson>>)])

\* a memory object and a body whose values all differ from one key to the
\* next; bUsedSpecialCase says which of its two boolean keys holds true
FullMemoryJson ==
    JO([id |-> JS("mem-42"), playerId |-> JS("player-456"), type |-> JS("first_time"),
        content |-> JS("Beat the dragon"), emotion |-> JS("excited"),
        importance |-> JN(9), context |-> JO([boss |-> JS("dragon"), zone |-> JS("lair")]),
        createdAt |-> JS("2025-01-15T10:30:00Z")])

FullBody(bUsedSpecialCase) ==
    JO(FullMemoryJson.v @@
       [intensity |-> JN(3), confidence |-> JN(4), action |-> JS("celebrate"),
        reasoning |-> JS("Victory detected"), method |-> JS("llm"), cost |-> JN(7),
        cache_hit |-> JB(~bUsedSpecialCase), latency_ms |-> JN(120),
        dialogue |-> JS("Well played!"), used_special_case |-> JB(bUsedSpecialCase),
        memory_count |-> JN(2),
        special_case_reasons |-> JA(<<JS("streak"), JS("mvp")>>)])

\* Bodies derived from the first full body: the value of one key is removed
\* or replaced, and then, in some, the value of a second key is removed or
\* replaced by an array.  The text of such a body names what was done to it.
BodyKeys == DOMAIN FullBody(FALSE).v
SecondTreatments == {<<"method", "missing">>, <<"cache_hit", "[]">>, <<"type", "missing">>}

OtherValue(t) ==
    CASE t = "42" -> JN(42)
      [] t = "'7'" -> JS("7")
      [] t = "'abc'" -> JS("abc")
      [] t = "true" -> JB(TRUE)
      [] t = "[]" -> JA(<<>>)

Treatments == {"missing", "42", "'7'", "'abc'", "true", "[]"}

Treated(obj, key, t) ==
    IF key = "" THEN obj
    ELSE IF t = "missing"
    THEN [k \in (DOMAIN obj) \ {key} |-> obj[k]]
    ELSE SetField(obj, key, OtherValue(t))

Variants ==
    {<<f[1], f[2], s[1], s[2]>> :
        f \in BodyKeys \X Treatments, s \in SecondTreatments \cup {<<"", "">>}}

VariantText(v) ==
    IF v[3] = ""
    THEN "{full, " \o v[1] \o ": " \o v[2] \o "}"
    ELSE "{full, " \o v[1] \o ": " \o v[2] \o ", " \o v[3] \o ": " \o v[4] \o "}"

VariantBody(v) == JO(Treated(Treated(FullBody(FALSE).v, v[1], v[2]), v[3], v[4]))

VariantTexts == {VariantText(v) : v \in Variants}

VariantBodies ==
    [text \in VariantTexts |-> VariantBody(CHOOSE v \in Variants : VariantText(v) = text)]

\* Bodies whose three list keys hold the same array, of up to MaxElements
\* elements: strings, a number, an array, a memory object (as an element of
\* results: a result without memory), a result object and a result object
\* whose memory is not an object.  The text of a body lists its elements.
MaxElements == 2

ListElement(l) ==
    CASE l = "'streak'" -> JS("streak")
      [] l = "42" -> JN(42)
      [] l = "[]" -> JA(<<>>)
      [] l = "{id: mem-1}" -> MemoryJson
      [] l = "{memory: {id: mem-42}}" ->
             JO([similarityScore |-> JN(1), memory |-> FullMemoryJson])
      [] l = "{memory: 'oops'}" ->
             JO([similarityScore |-> JN(2), memory |-> JS("oops")])

ListLabels ==
    {"'streak'", "42", "[]", "{id: mem-1}", "{memory: {id: mem-42}}", "{memory: 'oops'}"}

ListArrays == UNION {[1..n -> ListLabels] : n \in 0..MaxElements}

RECURSIVE Joined(_)
Joined(a) == IF a = <<>> THEN "" ELSE a[1] \o "; " \o Joined(Tail(a))

ListText(a) == "{lists: [" \o Joined(a) \o "]}"

ListBody(a) ==
    LET arr == JA([i \in 1..Len(a) |-> ListElement(a[i])])
    IN  JO([special_case_reasons |-> arr, results |-> arr, memories |-> arr])

ListTexts == {ListText(a) : a \in ListArrays}

ListBodies == [text \in ListTexts |-> ListBody(CHOOSE a \in ListArrays : ListText(a) = text)]

\* Memory bodies whose importance is each of the values drawn for the
\* int32 member: inside [0, 10], below 0, above 10 and the largest int32.
\* The text of the body gives the value.
Importances == {-1000, -1, 0, 5, 10, 11, 1000, 2147483647}

ImportanceText(n) == "{importance: " \o FromInt(n) \o "}"

ImportanceTexts == {ImportanceText(n) : n \in Importances}

ImportanceBodies ==
    [text \in ImportanceTexts |->
        JO(SetField(FullMemoryJson.v, "importance",
                    JN(CHOOSE n \in Importances : ImportanceText(n) = text)))]

\* a body whose list keys hold values that are not arrays
NoArrayText == "{lists: no array}"
NoArrayBody ==
    JO([special_case_reasons |-> JS("mvp"), results |-> JO(EmptyObject),
        memories |-> JN(3)])

\* The response contents of the model, as texts, and what the engine's JSON
\* reader makes of a text: "[]" is parseable JSON whose top-level value is
\* not an object, and any other text is not parseable.
WellFormedText == "{...}"
EmptyObjectText == "{}"
FullTexts == {"{full, cache_hit}", "{full, used_special_case}"}
ArrayText == "[]"
GarbageText == "<html>502</html>"

ReadJson(text) ==
    CASE text = WellFormedText -> WellFormedBody
      [] text \in FullTexts -> FullBody(text = "{full, used_special_case}")
      [] text \in VariantTexts -> VariantBodies[text]
      [] text = EmptyObjectText -> JO(EmptyObject)
      [] text \in ListTexts -> ListBodies[text]
      [] text = NoArrayText -> NoArrayBody
      [] text \in ImportanceTexts -> ImportanceBodies[text]
      [] text = ArrayText -> JA(<<>>)
      [] OTHER -> JInvalid


(***************************************************************************)
(* Enumerations (AGLTypes.h), by their ordinal.                            *)
(***************************************************************************)
EAGLEmotionType ==
    [Happy |-> 0, Excited |-> 1, Amazed |-> 2, Proud |-> 3, Satisfied |-> 4,
     Cheerful |-> 5, Grateful |-> 6, Sad |-> 7, Disappointed |-> 8,
     Frustrated |-> 9, Angry |-> 10, Worried |-> 11, Tired |-> 12, Neutral |-> 13]

EAGLEventType ==
    [Victory |-> 0, Defeat |-> 1, Kill |-> 2, Death |-> 3, Achievement |-> 4,
     LevelUp |-> 5, Loot |-> 6, SessionStart |-> 7, SessionEnd |-> 8]

EAGLPersona == [Cheerful |-> 0, Cool |-> 1, Cute |-> 2]

EAGLMemoryType ==
    [Achievement |-> 0, Milestone |-> 1, FirstTime |-> 2, Dramatic |-> 3,
     Conversation |-> 4, Event |-> 5, Observation |-> 6]

\* What a read of an enum member that no constructor initialised may give
\* (a uint8): a value of the enumeration and one outside it.
UninitEnum == {5, 255}

\* FString::ToLower, on the strings the model draws: they are lower case but
\* for the ones listed here
ToLower(s) ==
    CASE s = "Happy" -> "happy"
      [] s = "HAPPY" -> "happy"
      [] s = "Neutral" -> "neutral"
      [] s = "ACHIEVEMENT" -> "achievement"
      [] s = "First_Time" -> "first_time"
      [] OTHER -> s

\* FString::operator==(const FString&, const TCHAR*): the comparison of the
\* engine's string class ignores case (FPlatformString::Stricmp)
FStringEquals(Lhs, Rhs) == ToLower(Lhs) = ToLower(Rhs)

StringToEmotionType(EmotionString) ==
    CASE FStringEquals(EmotionString, "happy") -> EAGLEmotionType.Happy
      [] FStringEquals(EmotionString, "excited") -> EAGLEmotionType.Excited
      [] FStringEquals(EmotionString, "amazed") -> EAGLEmotionType.Amazed
      [] FStringEquals(EmotionString, "proud") -> EAGLEmotionType.Proud
      [] FStringEquals(EmotionString, "satisfied") -> EAGLEmotionType.Satisfied
      [] FStringEquals(EmotionString, "cheerful") -> EAGLEmotionType.Cheerful
      [] FStringEquals(EmotionString, "grateful") -> EAGLEmotionType.Grateful
      [] FStringEquals(EmotionString, "sad") -> EAGLEmotionType.Sad
      [] FStringEquals(EmotionString, "disappointed") -> EAGLEmotionType.Disappointed
      [] FStringEquals(EmotionString, "frustrated") -> EAGLEmotionType.Frustrated
      [] FStringEquals(EmotionString, "angry") -> EAGLEmotionType.Angry
      [] FStringEquals(EmotionString, "worried") -> EAGLEmotionType.Worried
      [] FStringEquals(EmotionString, "tired") -> EAGLEmotionType.Tired
      [] OTHER -> EAGLEmotionType.Neutral

\* StringToMemoryType looking for FirstTime without the underscore
StringToMemoryType_FirstTime(TypeString) ==
    CASE FStringEquals(TypeString, "achievement") -> EAGLMemoryType.Achievement
      [] FStringEquals(TypeString, "milestone") -> EAGLMemoryType.Milestone
      [] FStringEquals(TypeString, "firsttime") -> EAGLMemoryType.FirstTime
      [] FStringEquals(TypeString, "dramatic") -> EAGLMemoryType.Dramatic
      [] FStringEquals(TypeString, "conversation") -> EAGLMemoryType.Conversation
      [] FStringEquals(TypeString, "event") -> EAGLMemoryType.Event
      [] FStringEquals(TypeString, "observation") -> EAGLMemoryType.Observation
      [] OTHER -> EAGLMemoryType.Event

StringToMemoryType(TypeString) ==
    CASE FStringEquals(TypeString, "achievement") -> EAGLMemoryType.Achievement
      [] FStringEquals(TypeString, "milestone") -> EAGLMemoryType.Milestone
      [] FStringEquals(TypeString, "first_time") -> EAGLMemoryType.FirstTime
      [] FStringEquals(TypeString, "dramatic") -> EAGLMemoryType.Dramatic
      [] FStringEquals(TypeString, "conversation") -> EAGLMemoryType.Conversation
      [] FStringEquals(TypeString, "event") -> EAGLMemoryType.Event
      [] FStringEquals(TypeString, "observation") -> EAGLMemoryType.Observation
      [] OTHER -> EAGLMemoryType.Event

(***************************************************************************)
(* Response records as their default constructors leave them.  The enum    *)
(* members Emotion (FAGLEmotionResponse) and Type (FAGLMemory) have no      *)
(* initialiser: u is the value found there.                                *)
(***************************************************************************)
FAGLEmotionResponse(u) ==
    [Emotion |-> u, Intensity |-> 0, Action |-> "", Confidence |-> 0,
     Reasoning |-> "", Method |-> "", Cost |-> 0, bCacheHit |-> FALSE,
     LatencyMs |-> 0]

FAGLDialogueResponse ==
    [Dialogue |-> "", Method |-> "", Cost |-> 0, bUsedSpecialCase |-> FALSE,
     SpecialCaseReasons |-> <<>>, MemoryCount |-> 0, bCacheHit |-> FALSE,
     LatencyMs |-> 0]

FAGLMemory(u) ==
    [Id |-> "", PlayerId |-> "", Type |-> u, Content |-> "", Emotion |-> "",
     Importance |-> 0, Context |-> EmptyObject, CreatedAt |-> ""]

FAGLMemorySearchResult(u) == [Memory |-> FAGLMemory(u), SimilarityScore |-> 0]

(***************************************************************************)
(* Decoders.                                                               *)
(***************************************************************************)
\* UAGLEmotionService::DeserializeResponse
EmotionDeserializeResponse(JsonString, u) ==
    LET Response == FAGLEmotionResponse(u)
        o == ReadJson(JsonString).v
    IN  IF ~DeserializeOk(ReadJson(JsonString)) THEN Response
        ELSE [Emotion |-> IF HasString(o, "emotion")
                          THEN StringToEmotionType(AsString(o["emotion"]))
                          ELSE Response.Emotion,
              Intensity |-> TryGetNumberField(o, "intensity", Response.Intensity),
              Confidence |-> TryGetNumberField(o, "confidence", Response.Confidence),
              Cost |-> TryGetNumberField(o, "cost", Response.Cost),
              LatencyMs |-> TryGetNumberField(o, "latency_ms", Response.LatencyMs),
              Action |-> TryGetStringField(o, "action", Response.Action),
              Reasoning |-> TryGetStringField(o, "reasoning", Response.Reasoning),
              Method |-> TryGetStringField(o, "method", Response.Method),
              bCacheHit |-> TryGetBoolField(o, "cache_hit", Response.bCacheHit)]

\* the loop over special_case_reasons: the elements that give a string, in
\* order
ReasonsOf(ReasonsArray) ==
    LET strs == SelectSeq(ReasonsArray, CanGetString)
    IN  [i \in 1..Len(strs) |-> AsString(strs[i])]

\* DeserializeResponse reading each of the two flags from the other's key
DialogueDeserializeResponse_SwappedFlags(JsonString) ==
    LET Response == FAGLDialogueResponse
        o == ReadJson(JsonString).v
    IN  IF ~DeserializeOk(ReadJson(JsonString)) THEN Response
        ELSE [Dialogue |-> TryGetStringField(o, "dialogue", Response.Dialogue),
              Method |-> TryGetStringField(o, "method", Response.Method),
              Cost |-> TryGetNumberField(o, "cost", Response.Cost),
              LatencyMs |-> TryGetNumberField(o, "latency_ms", Response.LatencyMs),
              bUsedSpecialCase |-> TryGetBoolField(o, "cache_hit", Response.bUsedSpecialCase),
              bCacheHit |-> TryGetBoolField(o, "used_special_case", Response.bCacheHit),
              MemoryCount |-> TryGetNumberField(o, "memory_count", Response.MemoryCount),
              SpecialCaseReasons |->
                  IF HasField(o, "special_case_reasons", "array")
                  THEN ReasonsOf(o["special_case_reasons"].v)
                  ELSE Response.SpecialCaseReasons]

\* UAGLDialogueService::DeserializeResponse
DialogueDeserializeResponse(JsonString) ==
    LET Response == FAGLDialogueResponse
        o == ReadJson(JsonString).v
    IN  IF ~DeserializeOk(ReadJson(JsonString)) THEN Response
        ELSE [Dialogue |-> TryGetStringField(o, "dialogue", Response.Dialogue),
              Method |-> TryGetStringField(o, "method", Response.Method),
              Cost |-> TryGetNumberField(o, "cost", Response.Cost),
              LatencyMs |-> TryGetNumberField(o, "latency_ms", Response.LatencyMs),
              bUsedSpecialCase |-> TryGetBoolField(o, "used_special_case", Response.bUsedSpecialCase),
              bCacheHit |-> TryGetBoolField(o, "cache_hit", Response.bCacheHit),
              MemoryCount |-> TryGetNumberField(o, "memory_count", Response.MemoryCount),
              SpecialCaseReasons |->
                  IF HasField(o, "special_case_reasons", "array")
                  THEN ReasonsOf(o["special_case_reasons"].v)
                  ELSE Response.SpecialCaseReasons]

\* the loop over the context object: the pairs whose value gives a string
ContextOf(ContextObject) ==
    [k \in {x \in DOMAIN ContextObject : CanGetString(ContextObject[x])} |->
        AsString(ContextObject[k])]

\* UAGLMemoryService::DeserializeMemory, of a valid object
DeserializeMemory(o, u) ==
    LET Memory == FAGLMemory(u)
    IN  [Id |-> TryGetStringField(o, "id", Memory.Id),
         PlayerId |-> TryGetStringField(o, "playerId", Memory.PlayerId),
         Content |-> TryGetStringField(o, "content", Memory.Content),
         Emotion |-> TryGetStringField(o, "emotion", Memory.Emotion),
         CreatedAt |-> TryGetStringField(o, "createdAt", Memory.CreatedAt),
         Importance |-> TryGetNumberField(o, "importance", Memory.Importance),
         Type |-> IF HasString(o, "type")
                  THEN StringToMemoryType(AsString(o["type"]))
                  ELSE Memory.Type,
         Context |-> IF HasField(o, "context", "object")
                     THEN ContextOf(o["context"].v)
                     ELSE Memory.Context]

\* one element of the results array that is an object
SearchResultOf(ResultObject, u) ==
    [SimilarityScore |->
         TryGetNumberField(ResultObject, "similarityScore", FAGLMemorySearchResult(u).SimilarityScore),
     Memory |-> IF HasField(ResultObject, "memory", "object")
                THEN DeserializeMemory(ResultObject["memory"].v, u)
                ELSE FAGLMemorySearchResult(u).Memory]

\* UAGLMemoryService::DeserializeSearchResults
DeserializeSearchResults(JsonString, u) ==
    LET o == ReadJson(JsonString).v
    IN  IF ~DeserializeOk(ReadJson(JsonString)) THEN <<>>
        ELSE IF HasField(o, "results", "array")
        THEN LET objs == SelectSeq(o["results"].v, LAMBDA e : e.t = "object")
             IN  [i \in 1..Len(objs) |-> SearchResultOf(objs[i].v, u)]
        ELSE <<>>

\* UAGLMemoryService::DeserializeMemories
DeserializeMemories(JsonString, u) ==
    LET o == ReadJson(JsonString).v
    IN  IF ~DeserializeOk(ReadJson(JsonString)) THEN <<>>
        ELSE IF HasField(o, "memories", "array")
        THEN LET objs == SelectSeq(o["memories"].v, LAMBDA e : e.t = "object")
             IN  [i \in 1..Len(objs) |-> DeserializeMemory(objs[i].v, u)]
        ELSE <<>>

(***************************************************************************)
(* What the transport hands to a completion continuation: bWasSuccessful,  *)
(* whether the response pointer is valid and, when it is, the response's   *)
(* status code and content.                                                *)
(***************************************************************************)
NoResponse == [valid |-> FALSE, code |-> 0, body |-> ""]

\* The completion handlers.  Each gives the executions of the caller's
\* delegate it asks for, in order, as (bSuccess, result) pairs, and whether
\* it read and decoded the response content.
Exec(bSuccess, result) == [bSuccess |-> bSuccess, result |-> result]
Handled(execs, decoded) == [execs |-> execs, decoded |-> decoded]

\* HandleEmotionResponse without the return that ends its transport-failure
\* branch: the handler goes on to the status check
HandleEmotionResponse_NoReturn(Response, bWasSuccessful, u) ==
    LET failed == IF ~bWasSuccessful \/ ~Response.valid
                  THEN <<Exec(FALSE, FAGLEmotionResponse(u))>>
                  ELSE <<>>
    IN  IF Response.code # 200
        THEN Handled(failed \o <<Exec(FALSE, FAGLEmotionResponse(u))>>, FALSE)
        ELSE Handled(failed \o <<Exec(TRUE, EmotionDeserializeResponse(Response.body, u))>>,
                     TRUE)

\* UAGLEmotionService::HandleEmotionResponse
HandleEmotionResponse(Response, bWasSuccessful, u) ==
    IF ~bWasSuccessful \/ ~Response.valid
    THEN Handled(<<Exec(FALSE, FAGLEmotionResponse(u))>>, FALSE)
    ELSE IF Response.code # 200
    THEN Handled(<<Exec(FALSE, FAGLEmotionResponse(u))>>, FALSE)
    ELSE Handled(<<Exec(TRUE, EmotionDeserializeResponse(Response.body, u))>>, TRUE)

\* HandleDialogueResponse testing only the validity of the response pointer,
\* not bWasSuccessful
HandleDialogueResponse_NoSuccessTest(Response, bWasSuccessful, u) ==
    IF ~Response.valid
    THEN Handled(<<Exec(FALSE, FAGLDialogueResponse)>>, FALSE)
    ELSE IF Response.code # 200
    THEN Handled(<<Exec(FALSE, FAGLDialogueResponse)>>, FALSE)
    ELSE Handled(<<Exec(TRUE, DialogueDeserializeResponse(Response.body))>>, TRUE)

\* HandleDialogueResponse accepting every status of the 2xx range
HandleDialogueResponse_Any2xx(Response, bWasSuccessful, u) ==
    IF ~bWasSuccessful \/ ~Response.valid
    THEN Handled(<<Exec(FALSE, FAGLDialogueResponse)>>, FALSE)
    ELSE IF Response.code < 200 \/ Response.code > 299
    THEN Handled(<<Exec(FALSE, FAGLDialogueResponse)>>, FALSE)
    ELSE Handled(<<Exec(TRUE, DialogueDeserializeResponse(Response.body))>>, TRUE)

\* UAGLDialogueService::HandleDialogueResponse
HandleDialogueResponse(Response, bWasSuccessful, u) ==
    IF ~bWasSuccessful \/ ~Response.valid
    THEN Handled(<<Exec(FALSE, FAGLDialogueResponse)>>, FALSE)
    ELSE IF Response.code # 200
    THEN Handled(<<Exec(FALSE, FAGLDialogueResponse)>>, FALSE)
    ELSE Handled(<<Exec(TRUE, DialogueDeserializeResponse(Response.body))>>, TRUE)

\* UAGLMemoryService::HandleCreateMemoryResponse
HandleCreateMemoryResponse(Response, bWasSuccessful, u) ==
    IF ~bWasSuccessful \/ ~Response.valid
    THEN Handled(<<Exec(FALSE, FAGLMemory(u))>>, FALSE)
    ELSE IF Response.code # 200 /\ Response.code # 201
    THEN Handled(<<Exec(FALSE, FAGLMemory(u))>>, FALSE)
    ELSE IF ~DeserializeOk(ReadJson(Response.body))
    THEN Handled(<<Exec(FALSE, FAGLMemory(u))>>, TRUE)
    ELSE Handled(<<Exec(TRUE, DeserializeMemory(ReadJson(Response.body).v, u))>>, TRUE)

\* HandleSearchMemoriesResponse with the status test of
\* HandleCreateMemoryResponse: 201 accepted too
HandleSearchMemoriesResponse_201(Response, bWasSuccessful, u) ==
    IF ~bWasSuccessful \/ ~Response.valid
    THEN Handled(<<Exec(FALSE, <<>>)>>, FALSE)
    ELSE IF Response.code # 200 /\ Response.code # 201
    THEN Handled(<<Exec(FALSE, <<>>)>>, FALSE)
    ELSE Handled(<<Exec(TRUE, DeserializeSearchResults(Response.body, u))>>, TRUE)

\* UAGLMemoryService::HandleSearchMemoriesResponse
HandleSearchMemoriesResponse(Response, bWasSuccessful, u) ==
    IF ~bWasSuccessful \/ ~Response.valid
    THEN Handled(<<Exec(FALSE, <<>>)>>, FALSE)
    ELSE IF Response.code # 200
    THEN Handled(<<Exec(FALSE, <<>>)>>, FALSE)
    ELSE Handled(<<Exec(TRUE, DeserializeSearchResults(Response.body, u))>>, TRUE)

\* UAGLMemoryService::HandleGetMemoriesResponse
HandleGetMemoriesResponse(Response, bWasSuccessful, u) ==
    IF ~bWasSuccessful \/ ~Response.valid
    THEN Handled(<<Exec(FALSE, <<>>)>>, FALSE)
    ELSE IF Response.code # 200
    THEN Handled(<<Exec(FALSE, <<>>)>>, FALSE)
    ELSE Handled(<<Exec(TRUE, DeserializeMemories(Response.body, u))>>, TRUE)

(***************************************************************************)
(* Encoders.                                                               *)
(***************************************************************************)
\* UAGLEmotionService::EventTypeToString
EmotionEventTypeToString(EventType) ==
    CASE EventType = EAGLEventType.Victory -> "player.victory"
      [] EventType = EAGLEventType.Defeat -> "player.defeat"
      [] EventType = EAGLEventType.Kill -> "player.kill"
      [] EventType = EAGLEventType.Death -> "player.death"
      [] EventType = EAGLEventType.Achievement -> "player.achievement"
      [] EventType = EAGLEventType.LevelUp -> "player.levelup"
      [] EventType = EAGLEventType.Loot -> "player.loot"
      [] EventType = EAGLEventType.SessionStart -> "player.sessionstart"
      [] EventType = EAGLEventType.SessionEnd -> "player.sessionend"
      [] OTHER -> "unknown"

\* UAGLDialogueService::EventTypeToString
DialogueEventTypeToString(EventType) ==
    CASE EventType = EAGLEventType.Victory -> "player.victory"
      [] EventType = EAGLEventType.Defeat -> "player.defeat"
      [] EventType = EAGLEventType.Kill -> "player.kill"
      [] EventType = EAGLEventType.Death -> "player.death"
      [] EventType = EAGLEventType.Achievement -> "player.achievement"
      [] EventType = EAGLEventType.LevelUp -> "player.levelup"
      [] EventType = EAGLEventType.Loot -> "player.loot"
      [] EventType = EAGLEventType.SessionStart -> "player.sessionstart"
      [] EventType = EAGLEventType.SessionEnd -> "player.sessionend"
      [] OTHER -> "unknown"

\* UAGLDialogueService::EmotionTypeToString
EmotionTypeToString(EmotionType) ==
    CASE EmotionType = EAGLEmotionType.Happy -> "happy"
      [] EmotionType = EAGLEmotionType.Excited -> "excited"
      [] EmotionType = EAGLEmotionType.Amazed -> "amazed"
      [] EmotionType = EAGLEmotionType.Proud -> "proud"
      [] EmotionType = EAGLEmotionType.Satisfied -> "satisfied"
      [] EmotionType = EAGLEmotionType.Cheerful -> "cheerful"
      [] EmotionType = EAGLEmotionType.Grateful -> "grateful"
      [] EmotionType = EAGLEmotionType.Sad -> "sad"
      [] EmotionType = EAGLEmotionType.Disappointed -> "disappointed"
      [] EmotionType = EAGLEmotionType.Frustrated -> "frustrated"
      [] EmotionType = EAGLEmotionType.Angry -> "angry"
      [] EmotionType = EAGLEmotionType.Worried -> "worried"
      [] EmotionType = EAGLEmotionType.Tired -> "tired"
      [] EmotionType = EAGLEmotionType.Neutral -> "neutral"
      [] OTHER -> "neutral"

\* UAGLDialogueService::PersonaToString
PersonaToString(Persona) ==
    CASE Persona = EAGLPersona.Cheerful -> "cheerful"
      [] Persona = EAGLPersona.Cool -> "cool"
      [] Persona = EAGLPersona.Cute -> "cute"
      [] OTHER -> "cheerful"

\* MemoryTypeToString naming FirstTime without the underscore
MemoryTypeToString_FirstTime(MemoryType) ==
    CASE MemoryType = EAGLMemoryType.Achievement -> "achievement"
      [] MemoryType = EAGLMemoryType.Milestone -> "milestone"
      [] MemoryType = EAGLMemoryType.FirstTime -> "firsttime"
      [] MemoryType = EAGLMemoryType.Dramatic -> "dramatic"
      [] MemoryType = EAGLMemoryType.Conversation -> "conversation"
      [] MemoryType = EAGLMemoryType.Event -> "event"
      [] MemoryType = EAGLMemoryType.Observation -> "observation"
      [] OTHER -> "event"

\* UAGLMemoryService::MemoryTypeToString
MemoryTypeToString(MemoryType) ==
    CASE MemoryType = EAGLMemoryType.Achievement -> "achievement"
      [] MemoryType = EAGLMemoryType.Milestone -> "milestone"
      [] MemoryType = EAGLMemoryType.FirstTime -> "first_time"
      [] MemoryType = EAGLMemoryType.Dramatic -> "dramatic"
      [] MemoryType = EAGLMemoryType.Conversation -> "conversation"
      [] MemoryType = EAGLMemoryType.Event -> "event"
      [] MemoryType = EAGLMemoryType.Observation -> "observation"
      [] OTHER -> "event"

\* a TMap<FString, FString> as a JSON object of string fields
StringMapObject(Map) == JO([k \in DOMAIN Map |-> JS(Map[k])])

\* UAGLEmotionService::SerializeRequest
EmotionSerializeRequest(Request) ==
    LET o1 == SetField(EmptyObject, "type", JS(EmotionEventTypeToString(Request.EventType)))
        o2 == SetField(o1, "force_ml", JB(Request.bForceML))
        o3 == SetField(o2, "data", StringMapObject(Request.Data))
        o4 == IF DOMAIN Request.Context # {}
              THEN SetField(o3, "context", StringMapObject(Request.Context))
              ELSE o3
    IN  JO(o4)

\* SerializeRequest setting player_id whether or not it is empty
DialogueSerializeRequest_AlwaysPlayerId(Request) ==
    LET o1 == SetField(EmptyObject, "event_type", JS(DialogueEventTypeToString(Request.EventType)))
        o2 == SetField(o1, "emotion", JS(EmotionTypeToString(Request.Emotion)))
        o3 == SetField(o2, "persona", JS(PersonaToString(Request.Persona)))
        o4 == SetField(o3, "force_llm", JB(Request.bForceLLM))
        o5 == SetField(o4, "player_id", JS(Request.PlayerId))
        o6 == IF Request.Language # ""
              THEN SetField(o5, "language", JS(Request.Language))
              ELSE o5
        o7 == IF DOMAIN Request.Context # {}
              THEN SetField(o6, "context", StringMapObject(Request.Context))
              ELSE o6
    IN  JO(o7)

\* UAGLDialogueService::SerializeRequest
DialogueSerializeRequest(Request) ==
    LET o1 == SetField(EmptyObject, "event_type", JS(DialogueEventTypeToString(Request.EventType)))
        o2 == SetField(o1, "emotion", JS(EmotionTypeToString(Request.Emotion)))
        o3 == SetField(o2, "persona", JS(PersonaToString(Request.Persona)))
        o4 == SetField(o3, "force_llm", JB(Request.bForceLLM))
        o5 == IF Request.PlayerId # ""
              THEN SetField(o4, "player_id", JS(Request.PlayerId))
              ELSE o4
        o6 == IF Request.Language # ""
              THEN SetField(o5, "language", JS(Request.Language))
              ELSE o5
        o7 == IF DOMAIN Request.Context # {}
              THEN SetField(o6, "context", StringMapObject(Request.Context))
              ELSE o6
    IN  JO(o7)

\* SerializeCreateMemoryRequest bringing importance into [0, 10]
SerializeCreateMemoryRequest_Clamped(Request) ==
    LET Clamped == IF Request.Importance < 0 THEN 0
                   ELSE IF Request.Importance > 10 THEN 10
                   ELSE Request.Importance
        o1 == SetField(EmptyObject, "type", JS(MemoryTypeToString(Request.Type)))
        o2 == SetField(o1, "content", JS(Request.Content))
        o3 == SetField(o2, "importance", JN(Clamped))
        o4 == IF Request.Emotion # ""
              THEN SetField(o3, "emotion", JS(Request.Emotion))
              ELSE o3
        o5 == IF DOMAIN Request.Context # {}
              THEN SetField(o4, "context", StringMapObject(Request.Context))
              ELSE o4
    IN  JO(o5)

\* UAGLMemoryService::SerializeCreateMemoryRequest
SerializeCreateMemoryRequest(Request) ==
    LET o1 == SetField(EmptyObject, "type", JS(MemoryTypeToString(Request.Type)))
        o2 == SetField(o1, "content", JS(Request.Content))
        o3 == SetField(o2, "importance", JN(Request.Importance))
        o4 == IF Request.Emotion # ""
              THEN SetField(o3, "emotion", JS(Request.Emotion))
              ELSE o3
        o5 == IF DOMAIN Request.Context # {}
              THEN SetField(o4, "context", StringMapObject(Request.Context))
              ELSE o4
    IN  JO(o5)

\* SerializeSearchRequest leaving out a limit of 0
SerializeSearchRequest_OmitZeroLimit(Request) ==
    IF Request.Limit = 0
    THEN JO(SetField(EmptyObject, "query", JS(Request.Query)))
    ELSE JO(SetField(SetField(EmptyObject, "query", JS(Request.Query)),
                     "limit", JN(Request.Limit)))

\* UAGLMemoryService::SerializeSearchRequest
SerializeSearchRequest(Request) ==
    JO(SetField(SetField(EmptyObject, "query", JS(Request.Query)),
                "limit", JN(Request.Limit)))

\* UAGLMemoryService::SerializeContextRequest
SerializeContextRequest(Request) ==
    JO(SetField(SetField(EmptyObject, "currentEvent", JS(Request.CurrentEvent)),
                "limit", JN(Request.Limit)))

\* UAGLEmotionService::CreateVictoryRequest and its siblings.  The request is
\* default-constructed: EventType is assigned, bForceML keeps its initialiser
BoolText(b) == IF b THEN "true" ELSE "false"

CreateVictoryRequest(bIsMVP, WinStreak) ==
    [EventType |-> EAGLEventType.Victory,
     Data |-> [mvp |-> BoolText(bIsMVP), winStreak |-> FromInt(WinStreak)],
     Context |-> EmptyObject, bForceML |-> FALSE]

\* CreateDefeatRequest filing the streak under the victory key
CreateDefeatRequest_WinStreak(LossStreak) ==
    [EventType |-> EAGLEventType.Defeat,
     Data |-> [winStreak |-> FromInt(LossStreak)],
     Context |-> EmptyObject, bForceML |-> FALSE]

CreateDefeatRequest(LossStreak) ==
    [EventType |-> EAGLEventType.Defeat,
     Data |-> [lossStreak |-> FromInt(LossStreak)],
     Context |-> EmptyObject, bForceML |-> FALSE]

CreateAchievementRequest(Rarity) ==
    [EventType |-> EAGLEventType.Achievement,
     Data |-> [rarity |-> Rarity],
     Context |-> EmptyObject, bForceML |-> FALSE]

CreateKillRequest(KillCount, bIsLegendary) ==
    [EventType |-> EAGLEventType.Kill,
     Data |-> [killCount |-> FromInt(KillCount), isLegendary |-> BoolText(bIsLegendary)],
     Context |-> EmptyObject, bForceML |-> FALSE]

(***************************************************************************)
(* State.                                                                  *)
(***************************************************************************)
VARIABLES
    client,   \* the UAGLClient facade: Config, PlayerId, GameId, the three
              \* service pointers (an index of objs, 0 for null), bInitialized
    objs,     \* the service client objects created so far, in creation order
    calls,    \* the operation calls made so far: the delegate passed (bound
              \* or not) and how often it has been executed
    http,     \* the HTTP requests handed to the transport, by call: the
              \* request and its continuation while it is in flight
    count,    \* the Initialize calls made so far (on the facade, on a service
              \* client) and the operation calls the behaviour may still make
    last      \* the step taken last, with its inputs and what it did

vars == <<client, objs, calls, http, count, last>>

\* FAGLConfig with its member initialisers
FAGLConfig ==
    [ApiKey |-> "",
     ApiBaseUrl |-> "http://localhost:3000",
     EmotionServiceUrl |-> "http://localhost:8000",
     DialogueServiceUrl |-> "http://localhost:8001",
     MemoryServiceUrl |-> "http://localhost:3002",
     Timeout |-> 30]

\* the configurations callers pass
ConfigA == [FAGLConfig EXCEPT !.ApiKey = "key-A"]
ConfigB ==
    [ApiKey |-> "key-B",
     ApiBaseUrl |-> "https://api.example",
     EmotionServiceUrl |-> "https://emotion.example",
     DialogueServiceUrl |-> "https://dialogue.example",
     MemoryServiceUrl |-> "https://memory.example",
     Timeout |-> 10]
ConfigNoKey == [ConfigB EXCEPT !.ApiKey = ""]
Configs == {ConfigA, ConfigB, ConfigNoKey}

\* NewObject<UAGL...Service>(): a zeroed object of the class.  inits and
\* destroyed are not members of the class: inits counts the Initialize calls
\* the object has seen, destroyed says that the garbage collector has
\* destroyed the object.
NewObject(kind) ==
    [kind |-> kind, ServiceUrl |-> "", ApiKey |-> "", Timeout |-> 0, inits |-> 0,
     destroyed |-> FALSE]

\* UAGLEmotionService::Initialize, UAGLDialogueService::Initialize,
\* UAGLMemoryService::Initialize
ServiceInitialize(svc, InServiceUrl, InApiKey, InTimeout) ==
    [svc EXCEPT !.ServiceUrl = InServiceUrl, !.ApiKey = InApiKey,
                !.Timeout = InTimeout, !.inits = @ + 1]

\* a constructed UAGLClient
NewClient ==
    [Config |-> FAGLConfig, PlayerId |-> "", GameId |-> "",
     EmotionService |-> 0, DialogueService |-> 0, MemoryService |-> 0,
     bInitialized |-> FALSE]

\* UAGLClient::Initialize giving the emotion client the API base URL
ClientInitialize_ApiBaseUrl(c, os, InConfig) ==
    LET c1 == [c EXCEPT !.Config = InConfig]
        n == Len(os)
    IN  IF c1.Config.ApiKey = ""
        THEN [client |-> c1, objs |-> os]
        ELSE [client |-> [c1 EXCEPT !.EmotionService = n + 1,
                                    !.DialogueService = n + 2,
                                    !.MemoryService = n + 3,
                                    !.bInitialized = TRUE],
              objs |-> os \o
                 << ServiceInitialize(NewObject("emotion"), c1.Config.ApiBaseUrl,
                                      c1.Config.ApiKey, c1.Config.Timeout),
                    ServiceInitialize(NewObject("dialogue"), c1.Config.DialogueServiceUrl,
                                      c1.Config.ApiKey, c1.Config.Timeout),
                    ServiceInitialize(NewObject("memory"), c1.Config.MemoryServiceUrl,
                                      c1.Config.ApiKey, c1.Config.Timeout) >>]

\* UAGLClient::Initialize creating the service clients only when the facade
\* has none yet, and initialising the ones it has in place
ClientInitialize_InPlace(c, os, InConfig) ==
    LET c1 == [c EXCEPT !.Config = InConfig]
        n == Len(os)
        e == IF c1.EmotionService = 0 THEN n + 1 ELSE c1.EmotionService
        d == IF c1.DialogueService = 0 THEN n + 2 ELSE c1.DialogueService
        m == IF c1.MemoryService = 0 THEN n + 3 ELSE c1.MemoryService
        all == os \o <<NewObject("emotion"), NewObject("dialogue"), NewObject("memory")>>
        kept == IF c1.EmotionService = 0 THEN all ELSE os
    IN  IF c1.Config.ApiKey = ""
        THEN [client |-> c1, objs |-> os]
        ELSE [client |-> [c1 EXCEPT !.EmotionService = e, !.DialogueService = d,
                                    !.MemoryService = m, !.bInitialized = TRUE],
              objs |-> [i \in DOMAIN kept |->
                 IF i = e THEN ServiceInitialize(kept[i], c1.Config.EmotionServiceUrl,
                                                 c1.Config.ApiKey, c1.Config.Timeout)
                 ELSE IF i = d THEN ServiceInitialize(kept[i], c1.Config.DialogueServiceUrl,
                                                 c1.Config.ApiKey, c1.Config.Timeout)
                 ELSE IF i = m THEN ServiceInitialize(kept[i], c1.Config.MemoryServiceUrl,
                                                 c1.Config.ApiKey, c1.Config.Timeout)
                 ELSE kept[i]]]

\* UAGLClient::Initialize raising the flag before it validates the key
ClientInitialize_FlagFirst(c, os, InConfig) ==
    LET c1 == [c EXCEPT !.Config = InConfig, !.bInitialized = TRUE]
        n == Len(os)
    IN  IF c1.Config.ApiKey = ""
        THEN [client |-> c1, objs |-> os]
        ELSE [client |-> [c1 EXCEPT !.EmotionService = n + 1,
                                    !.DialogueService = n + 2,
                                    !.MemoryService = n + 3],
              objs |-> os \o
                 << ServiceInitialize(NewObject("emotion"), c1.Config.EmotionServiceUrl,
                                      c1.Config.ApiKey, c1.Config.Timeout),
                    ServiceInitialize(NewObject("dialogue"), c1.Config.DialogueServiceUrl,
                                      c1.Config.ApiKey, c1.Config.Timeout),
                    ServiceInitialize(NewObject("memory"), c1.Config.MemoryServiceUrl,
                                      c1.Config.ApiKey, c1.Config.Timeout) >>]

\* UAGLClient::Initialize: the facade and the objects after the call
ClientInitialize(c, os, InConfig) ==
    LET c1 == [c EXCEPT !.Config = InConfig]
        n == Len(os)
    IN  IF c1.Config.ApiKey = ""
        THEN [client |-> c1, objs |-> os]
        ELSE [client |-> [c1 EXCEPT !.EmotionService = n + 1,
                                    !.DialogueService = n + 2,
                                    !.MemoryService = n + 3,
                                    !.bInitialized = TRUE],
              objs |-> os \o
                 << ServiceInitialize(NewObject("emotion"), c1.Config.EmotionServiceUrl,
                                      c1.Config.ApiKey, c1.Config.Timeout),
                    ServiceInitialize(NewObject("dialogue"), c1.Config.DialogueServiceUrl,
                                      c1.Config.ApiKey, c1.Config.Timeout),
                    ServiceInitialize(NewObject("memory"), c1.Config.MemoryServiceUrl,
                                      c1.Config.ApiKey, c1.Config.Timeout) >>]

\* the getters of the facade
IsInitialized == client.bInitialized
GetConfig == client.Config
GetEmotionService == client.EmotionService
GetDialogueService == client.DialogueService
GetMemoryService == client.MemoryService

(***************************************************************************)
(* Building and dispatching a request.                                     *)
(***************************************************************************)
NoContent == [t |-> "none", v |-> ""]

\* the request of a client that sets Content-Type only where there is a
\* content
HttpRequest_NoContentType(svc, verb, url, content) ==
    [verb |-> verb, url |-> url,
     headers |-> IF content = NoContent
                 THEN ("X-API-Key" :> svc.ApiKey)
                 ELSE ("Content-Type" :> "application/json") @@ ("X-API-Key" :> svc.ApiKey),
     timeout |-> svc.Timeout, content |-> content]

\* the part of every operation that sets the verb, URL, headers, timeout
\* and content of the request created by FHttpModule::Get().CreateRequest()
HttpRequest(svc, verb, url, content) ==
    [verb |-> verb, url |-> url,
     headers |-> ("Content-Type" :> "application/json") @@ ("X-API-Key" :> svc.ApiKey),
     timeout |-> svc.Timeout, content |-> content]

AnalyzeEmotionRequest(svc, Request) ==
    HttpRequest(svc, "POST", svc.ServiceUrl \o "/analyze", EmotionSerializeRequest(Request))

GenerateDialogueRequest(svc, Request) ==
    HttpRequest(svc, "POST", svc.ServiceUrl \o "/generate", DialogueSerializeRequest(Request))

CreateMemoryRequest(svc, PlayerId, Request) ==
    HttpRequest(svc, "POST", svc.ServiceUrl \o "/players/" \o PlayerId \o "/memories",
                SerializeCreateMemoryRequest(Request))

SearchMemoriesRequest(svc, PlayerId, Request) ==
    HttpRequest(svc, "POST", svc.ServiceUrl \o "/players/" \o PlayerId \o "/memories/search",
                SerializeSearchRequest(Request))

\* GetContext posting to the URL of SearchMemories
GetContextRequest_Search(svc, PlayerId, Request) ==
    HttpRequest(svc, "POST", svc.ServiceUrl \o "/players/" \o PlayerId \o "/memories/search",
                SerializeContextRequest(Request))

GetContextRequest(svc, PlayerId, Request) ==
    HttpRequest(svc, "POST", svc.ServiceUrl \o "/players/" \o PlayerId \o "/memories/context",
                SerializeContextRequest(Request))

GetMemoriesRequest(svc, PlayerId, Limit, Offset) ==
    HttpRequest(svc, "GET",
                svc.ServiceUrl \o "/players/" \o PlayerId \o "/memories?limit="
                    \o FromInt(Limit) \o "&offset=" \o FromInt(Offset),
                NoContent)

\* OnProcessRequestComplete().BindLambda([this, OnComplete](...){ Handle...(...,
\* OnComplete); }): the continuation holds the object, the handler it calls
\* and its own copy of the caller's delegate
BindLambda(op, req, obj, handler, OnComplete) ==
    [op |-> op, request |-> req, this |-> obj, handler |-> handler,
     OnComplete |-> OnComplete, pending |-> TRUE]

\* ProcessRequest of a client that merges a call with an identical request
\* already in flight
ProcessRequest_Merged(inflight, bound) ==
    IF \E r \in DOMAIN inflight :
           inflight[r].pending /\ inflight[r].request = bound.request
    THEN inflight
    ELSE Append(inflight, bound)

\* IHttpRequest::ProcessRequest: the request is in flight
ProcessRequest(inflight, bound) == Append(inflight, bound)

\* the delegate of a client that keeps the caller's delegate in a member,
\* overwritten by every call, instead of in the continuation
CapturedDelegate_Member(inflight, r) == inflight[Len(inflight)].OnComplete

\* the delegate executed by the continuation of request r
CapturedDelegate(inflight, r) == inflight[r].OnComplete

\* FOn...Complete::ExecuteIfBound
ExecuteIfBound(bound, execs) == IF bound THEN execs ELSE <<>>

\* the continuation's dispatch to the handler its lambda names
RunHandler(handler, Response, bWasSuccessful, u) ==
    CASE handler = "HandleEmotionResponse" ->
             HandleEmotionResponse(Response, bWasSuccessful, u)
      [] handler = "HandleDialogueResponse" ->
             HandleDialogueResponse(Response, bWasSuccessful, u)
      [] handler = "HandleCreateMemoryResponse" ->
             HandleCreateMemoryResponse(Response, bWasSuccessful, u)
      [] handler = "HandleSearchMemoriesResponse" ->
             HandleSearchMemoriesResponse(Response, bWasSuccessful, u)
      [] handler = "HandleGetMemoriesResponse" ->
             HandleGetMemoriesResponse(Response, bWasSuccessful, u)

\* what the transport does with a request whose continuation has run: it
\* releases the request and its continuation (kept here: whose it was)
Finished(inflight, r) ==
    [inflight EXCEPT ![r] = [pending |-> FALSE, OnComplete |-> inflight[r].OnComplete]]

(***************************************************************************)
(* Inputs: the requests callers pass and the answers the transport gives.  *)
(***************************************************************************)
PlayerIds == {"player-123"}
GameIds == {"game-1"}

EmotionRequests == {CreateVictoryRequest(TRUE, 3)}

DialogueRequests ==
    {[EventType |-> EAGLEventType.Victory, Emotion |-> EAGLEmotionType.Happy,
      Persona |-> EAGLPersona.Cheerful, PlayerId |-> "", Language |-> "en",
      Context |-> EmptyObject, bForceLLM |-> FALSE]}

CreateMemoryRequests ==
    {[Type |-> EAGLMemoryType.Achievement, Content |-> "Won first match",
      Emotion |-> "", Context |-> EmptyObject, Importance |-> 8]}

SearchMemoriesRequests == {[Query |-> "boss fight", Limit |-> 10]}

GetContextRequests == {[CurrentEvent |-> "player.victory", Limit |-> 5]}

Pagings == {[Limit |-> 10, Offset |-> 0]}

Bodies == {GarbageText, ArrayText, WellFormedText}
StatusCodes == {200, 201, 204, 500}

Responses == {[valid |-> TRUE, code |-> c, body |-> b] : c \in StatusCodes, b \in Bodies}

\* the answers of the transport, as (response, bWasSuccessful): no response
\* (reported either way), a response of a request reported failed, and
\* every response of a request reported successful
Outcomes ==
    ({NoResponse} \X BOOLEAN)
    \cup {<<[valid |-> TRUE, code |-> 200, body |-> WellFormedText], FALSE>>}
    \cup (Responses \X {TRUE})

\* the answers drawn in SpecClient: a failure without response, a 200 with a
\* well-formed body
ClientOutcomes ==
    {<<NoResponse, FALSE>>,
     <<[valid |-> TRUE, code |-> 200, body |-> WellFormedText], TRUE>>}

\* the values of an enumeration
EnumValues(E) == {E[k] : k \in DOMAIN E}

\* values a uint8 enum variable can hold that are outside its enumeration
OutsideEnum == {200, 255}

\* TMap<FString, FString> values: empty, one entry, two entries of which one
\* has an empty value
StringMaps ==
    {EmptyObject, [player_health |-> "85.5"], [in_combat |-> "false", zone |-> ""]}

\* the requests drawn where the encoders are applied
WideEmotionRequests ==
    {[EventType |-> e, Data |-> d, Context |-> c, bForceML |-> f] :
        e \in {EAGLEventType.Victory, EAGLEventType.SessionEnd, 255},
        d \in StringMaps, c \in StringMaps, f \in BOOLEAN}

WideDialogueRequests ==
    {[EventType |-> e[1], Emotion |-> e[2], Persona |-> e[3], PlayerId |-> p,
      Language |-> l, Context |-> c, bForceLLM |-> f] :
        e \in {<<EAGLEventType.Victory, EAGLEmotionType.Happy, EAGLPersona.Cheerful>>,
               <<EAGLEventType.Loot, EAGLEmotionType.Neutral, EAGLPersona.Cute>>,
               <<255, 200, 255>>},
        p \in {"", "player-123"}, l \in {"", "zh"},
        c \in {EmptyObject, [player_health |-> "85.5"]}, f \in BOOLEAN}

WideCreateMemoryRequests ==
    {[Type |-> t, Content |-> n, Emotion |-> e, Context |-> c, Importance |-> i] :
        t \in {EAGLMemoryType.FirstTime, 255}, n \in {"", "Won first match"},
        e \in {"", "cheerful"}, c \in {EmptyObject, [player_health |-> "85.5"]},
        i \in {0, 5, 11}}

WideSearchMemoriesRequests ==
    {[Query |-> q, Limit |-> l] : q \in {"", "boss fight"}, l \in {0, 10}}

WideGetContextRequests ==
    {[CurrentEvent |-> q, Limit |-> l] : q \in {"", "player.victory"}, l \in {0, 5}}

\* the arguments drawn in SpecRequests
RequestPlayerIds == {"player-123", "player-456"}

RequestPagings == {[Limit |-> l, Offset |-> o] : l \in {0, 10, 25}, o \in {0, 5, -1}}

RequestEmotionRequests ==
    {r \in WideEmotionRequests : r.Data = EmptyObject /\ ~r.bForceML}

RequestDialogueRequests ==
    {r \in WideDialogueRequests :
        r.Language = "zh" /\ r.Context = EmptyObject /\ ~r.bForceLLM}

RequestCreateMemoryRequests ==
    {r \in WideCreateMemoryRequests :
        r.Content # "" /\ r.Context = EmptyObject /\ r.Importance = 5}

\* the enum values, strings, numbers and bodies drawn in SpecCodec
EventTypes == EnumValues(EAGLEventType) \cup OutsideEnum
EmotionTypes == EnumValues(EAGLEmotionType) \cup OutsideEnum
Personas == EnumValues(EAGLPersona) \cup OutsideEnum
MemoryTypes == EnumValues(EAGLMemoryType) \cup OutsideEnum

WireStrings ==
    {"happy", "excited", "amazed", "proud", "satisfied", "cheerful", "grateful",
     "sad", "disappointed", "frustrated", "angry", "worried", "tired", "neutral",
     "achievement", "milestone", "first_time", "dramatic", "conversation", "event",
     "observation",
     "", "Happy", "HAPPY", "Neutral", "ACHIEVEMENT", "First_Time", "joyful",
     "firsttime", "unknown", "player.victory"}

Streaks == {0, 5, 10, 25, -1}
Rarities == {"", "legendary", "common"}

CodecBodies == {GarbageText, ArrayText, WellFormedText} \cup FullTexts

(***************************************************************************)
(* Actions.                                                                *)
(***************************************************************************)
\* the common course of the six operations on service client i: create the
\* request, bind the continuation, ProcessRequest
Dispatch(op, i, kind, args, req, handler, bound) ==
    /\ count.calls > 0
    /\ objs[i].kind = kind
    /\ calls' = Append(calls, [bound |-> bound, invoked |-> 0])
    /\ http' = ProcessRequest(http, BindLambda(op, req, i, handler, Len(calls) + 1))
    /\ count' = [count EXCEPT !.calls = @ - 1]
    /\ last' = [step |-> op, this |-> i, args |-> args, call |-> Len(calls) + 1]
    /\ UNCHANGED <<client, objs>>

AnalyzeEmotion(i, Request, bound) ==
    Dispatch("analyzeEmotion", i, "emotion", [Request |-> Request],
             AnalyzeEmotionRequest(objs[i], Request),
             "HandleEmotionResponse", bound)

GenerateDialogue(i, Request, bound) ==
    Dispatch("generateDialogue", i, "dialogue", [Request |-> Request],
             GenerateDialogueRequest(objs[i], Request),
             "HandleDialogueResponse", bound)

CreateMemory(i, PlayerId, Request, bound) ==
    Dispatch("createMemory", i, "memory", [PlayerId |-> PlayerId, Request |-> Request],
             CreateMemoryRequest(objs[i], PlayerId, Request),
             "HandleCreateMemoryResponse", bound)

SearchMemories(i, PlayerId, Request, bound) ==
    Dispatch("searchMemories", i, "memory", [PlayerId |-> PlayerId, Request |-> Request],
             SearchMemoriesRequest(objs[i], PlayerId, Request),
             "HandleSearchMemoriesResponse", bound)

GetContext(i, PlayerId, Request, bound) ==
    Dispatch("getContext", i, "memory", [PlayerId |-> PlayerId, Request |-> Request],
             GetContextRequest(objs[i], PlayerId, Request),
             "HandleGetMemoriesResponse", bound)

GetMemories(i, PlayerId, Limit, Offset, bound) ==
    Dispatch("getMemories", i, "memory",
             [PlayerId |-> PlayerId, Limit |-> Limit, Offset |-> Offset],
             GetMemoriesRequest(objs[i], PlayerId, Limit, Offset),
             "HandleGetMemoriesResponse", bound)

\* the transport completes request r: its continuation runs the handler,
\* which executes the captured delegate if it is bound
Complete(r, Response, bWasSuccessful, u) ==
    /\ http[r].pending
    /\ ~objs[http[r].this].destroyed
    /\ LET h == RunHandler(http[r].handler, Response, bWasSuccessful, u)
           d == CapturedDelegate(http, r)
           execs == ExecuteIfBound(calls[d].bound, h.execs)
       IN  /\ calls' = [calls EXCEPT ![d].invoked = @ + Len(execs)]
           /\ http' = Finished(http, r)
           /\ last' = [step |-> "complete", req |-> r, op |-> http[r].op,
                       request |-> http[r].request, this |-> http[r].this,
                       handler |-> http[r].handler,
                       delegate |-> d,
                       Response |-> Response, bWasSuccessful |-> bWasSuccessful,
                       execs |-> execs, decoded |-> h.decoded]
    /\ UNCHANGED <<client, objs, count>>

\* the objects the facade's UPROPERTY pointers refer to; a service object
\* has no other referencer (the continuation of a request holds a raw this)
Referenced == {client.EmotionService, client.DialogueService, client.MemoryService}

\* a garbage collection: every service object that no UPROPERTY refers to
\* is destroyed
CollectGarbage ==
    /\ last.step # "crash"
    /\ \E i \in DOMAIN objs : i \notin Referenced /\ ~objs[i].destroyed
    /\ objs' = [i \in DOMAIN objs |->
                   IF i \in Referenced THEN objs[i]
                   ELSE [objs[i] EXCEPT !.destroyed = TRUE]]
    /\ last' = [step |-> "CollectGarbage"]
    /\ UNCHANGED <<client, calls, http, count>>

\* the transport completes request r of a service object that has been
\* destroyed: the continuation calls the handler through its dangling this.
\* The handlers read no member, so the call either runs as on a live object
\* or faults, which ends the process: nothing is pending or possible after.
CompleteDestroyed(r, Response, bWasSuccessful, u) ==
    /\ http[r].pending
    /\ objs[http[r].this].destroyed
    /\ \/ LET h == RunHandler(http[r].handler, Response, bWasSuccessful, u)
              d == CapturedDelegate(http, r)
              execs == ExecuteIfBound(calls[d].bound, h.execs)
          IN  /\ calls' = [calls EXCEPT ![d].invoked = @ + Len(execs)]
              /\ http' = Finished(http, r)
              /\ count' = count
              /\ last' = [step |-> "complete", req |-> r, op |-> http[r].op,
                          request |-> http[r].request, this |-> http[r].this,
                          handler |-> http[r].handler,
                          delegate |-> d,
                          Response |-> Response, bWasSuccessful |-> bWasSuccessful,
                          execs |-> execs, decoded |-> h.decoded]
       \/ /\ http' = [q \in DOMAIN http |-> Finished(http, q)[q]]
          /\ count' = [client |-> MaxInits, service |-> 0, calls |-> 0]
          /\ last' = [step |-> "crash", req |-> r, this |-> http[r].this,
                      handler |-> http[r].handler]
          /\ UNCHANGED calls
    /\ UNCHANGED <<client, objs>>

\* UAGLClient::Initialize
Initialize(InConfig) ==
    /\ count.client + count.service < MaxInits
    /\ LET after == ClientInitialize(client, objs, InConfig)
       IN  /\ client' = after.client
           /\ objs' = after.objs
    /\ count' = [count EXCEPT !.client = @ + 1]
    /\ last' = [step |-> "Initialize", InConfig |-> InConfig]
    /\ UNCHANGED <<calls, http>>

\* a caller's own Initialize on a service client it got from the facade
InitializeService(i, InServiceUrl, InApiKey, InTimeout) ==
    /\ count.client + count.service < MaxInits
    /\ objs' = [objs EXCEPT ![i] = ServiceInitialize(@, InServiceUrl, InApiKey, InTimeout)]
    /\ count' = [count EXCEPT !.service = @ + 1]
    /\ last' = [step |-> "InitializeService", this |-> i]
    /\ UNCHANGED <<client, calls, http>>

\* SetPlayerId that also forgets the game
SetPlayerId_ClearsGameId(InPlayerId) ==
    /\ client' = [client EXCEPT !.PlayerId = InPlayerId, !.GameId = ""]
    /\ last' = [step |-> "SetPlayerId", InPlayerId |-> InPlayerId]
    /\ UNCHANGED <<objs, calls, http, count>>

\* UAGLClient::SetPlayerId
SetPlayerId(InPlayerId) ==
    /\ client' = [client EXCEPT !.PlayerId = InPlayerId]
    /\ last' = [step |-> "SetPlayerId", InPlayerId |-> InPlayerId]
    /\ UNCHANGED <<objs, calls, http, count>>

\* UAGLClient::SetGameId
SetGameId(InGameId) ==
    /\ client' = [client EXCEPT !.GameId = InGameId]
    /\ last' = [step |-> "SetGameId", InGameId |-> InGameId]
    /\ UNCHANGED <<objs, calls, http, count>>

\* what a call of a function that touches no member and sends nothing was
\* given and what it returned
Returned(f, in, out) == [step |-> f, in |-> in, out |-> out]

CallEmotionEventTypeToString(EventType) ==
    /\ last' = Returned("UAGLEmotionService::EventTypeToString", EventType,
                        EmotionEventTypeToString(EventType))
    /\ UNCHANGED <<client, objs, calls, http, count>>

CallDialogueEventTypeToString(EventType) ==
    /\ last' = Returned("UAGLDialogueService::EventTypeToString", EventType,
                        DialogueEventTypeToString(EventType))
    /\ UNCHANGED <<client, objs, calls, http, count>>

CallEmotionTypeToString(EmotionType) ==
    /\ last' = Returned("EmotionTypeToString", EmotionType, EmotionTypeToString(EmotionType))
    /\ UNCHANGED <<client, objs, calls, http, count>>

CallPersonaToString(Persona) ==
    /\ last' = Returned("PersonaToString", Persona, PersonaToString(Persona))
    /\ UNCHANGED <<client, objs, calls, http, count>>

CallMemoryTypeToString(MemoryType) ==
    /\ last' = Returned("MemoryTypeToString", MemoryType, MemoryTypeToString(MemoryType))
    /\ UNCHANGED <<client, objs, calls, http, count>>

CallStringToEmotionType(EmotionString) ==
    /\ last' = Returned("StringToEmotionType", EmotionString, StringToEmotionType(EmotionString))
    /\ UNCHANGED <<client, objs, calls, http, count>>

CallStringToMemoryType(TypeString) ==
    /\ last' = Returned("StringToMemoryType", TypeString, StringToMemoryType(TypeString))
    /\ UNCHANGED <<client, objs, calls, http, count>>

CallEmotionSerializeRequest(Request) ==
    /\ last' = Returned("UAGLEmotionService::SerializeRequest", Request,
                        EmotionSerializeRequest(Request))
    /\ UNCHANGED <<client, objs, calls, http, count>>

CallDialogueSerializeRequest(Request) ==
    /\ last' = Returned("UAGLDialogueService::SerializeRequest", Request,
                        DialogueSerializeRequest(Request))
    /\ UNCHANGED <<client, objs, calls, http, count>>

CallSerializeCreateMemoryRequest(Request) ==
    /\ last' = Returned("SerializeCreateMemoryRequest", Request, SerializeCreateMemoryRequest(Request))
    /\ UNCHANGED <<client, objs, calls, http, count>>

CallSerializeSearchRequest(Request) ==
    /\ last' = Returned("SerializeSearchRequest", Request, SerializeSearchRequest(Request))
    /\ UNCHANGED <<client, objs, calls, http, count>>

CallSerializeContextRequest(Request) ==
    /\ last' = Returned("SerializeContextRequest", Request, SerializeContextRequest(Request))
    /\ UNCHANGED <<client, objs, calls, http, count>>

CallEmotionDeserializeResponse(JsonString, u) ==
    /\ last' = Returned("UAGLEmotionService::DeserializeResponse", JsonString,
                        EmotionDeserializeResponse(JsonString, u))
    /\ UNCHANGED <<client, objs, calls, http, count>>

CallDialogueDeserializeResponse(JsonString) ==
    /\ last' = Returned("UAGLDialogueService::DeserializeResponse", JsonString,
                        DialogueDeserializeResponse(JsonString))
    /\ UNCHANGED <<client, objs, calls, http, count>>

\* DeserializeMemory is given the object the caller parsed
CallDeserializeMemory(JsonString, u) ==
    /\ DeserializeOk(ReadJson(JsonString))
    /\ last' = Returned("DeserializeMemory", JsonString,
                        DeserializeMemory(ReadJson(JsonString).v, u))
    /\ UNCHANGED <<client, objs, calls, http, count>>

CallDeserializeSearchResults(JsonString, u) ==
    /\ last' = [step |-> "DeserializeSearchResults", in |-> JsonString, u |-> u,
                out |-> DeserializeSearchResults(JsonString, u)]
    /\ UNCHANGED <<client, objs, calls, http, count>>

CallDeserializeMemories(JsonString, u) ==
    /\ last' = [step |-> "DeserializeMemories", in |-> JsonString, u |-> u,
                out |-> DeserializeMemories(JsonString, u)]
    /\ UNCHANGED <<client, objs, calls, http, count>>

CallCreateVictoryRequest(bIsMVP, WinStreak) ==
    /\ last' = Returned("CreateVictoryRequest", [bIsMVP |-> bIsMVP, WinStreak |-> WinStreak],
                        CreateVictoryRequest(bIsMVP, WinStreak))
    /\ UNCHANGED <<client, objs, calls, http, count>>

CallCreateDefeatRequest(LossStreak) ==
    /\ last' = Returned("CreateDefeatRequest", [LossStreak |-> LossStreak],
                        CreateDefeatRequest(LossStreak))
    /\ UNCHANGED <<client, objs, calls, http, count>>

CallCreateAchievementRequest(Rarity) ==
    /\ last' = Returned("CreateAchievementRequest", [Rarity |-> Rarity],
                        CreateAchievementRequest(Rarity))
    /\ UNCHANGED <<client, objs, calls, http, count>>

CallCreateKillRequest(KillCount, bIsLegendary) ==
    /\ last' = Returned("CreateKillRequest", [KillCount |-> KillCount, bIsLegendary |-> bIsLegendary],
                        CreateKillRequest(KillCount, bIsLegendary))
    /\ UNCHANGED <<client, objs, calls, http, count>>

\* the service clients a caller gets from the facade's getters
ServiceClients ==
    {GetEmotionService, GetDialogueService, GetMemoryService} \cap DOMAIN objs

\* the six operations, on the service clients of the facade
Operations ==
    \/ \E i \in ServiceClients, Request \in EmotionRequests, bound \in BOOLEAN :
           AnalyzeEmotion(i, Request, bound)
    \/ \E i \in ServiceClients, Request \in DialogueRequests, bound \in BOOLEAN :
           GenerateDialogue(i, Request, bound)
    \/ \E i \in ServiceClients, PlayerId \in PlayerIds, Request \in CreateMemoryRequests,
          bound \in BOOLEAN :
           CreateMemory(i, PlayerId, Request, bound)
    \/ \E i \in ServiceClients, PlayerId \in PlayerIds, Request \in SearchMemoriesRequests,
          bound \in BOOLEAN :
           SearchMemories(i, PlayerId, Request, bound)
    \/ \E i \in ServiceClients, PlayerId \in PlayerIds, Request \in GetContextRequests,
          bound \in BOOLEAN :
           GetContext(i, PlayerId, Request, bound)
    \/ \E i \in ServiceClients, PlayerId \in PlayerIds, p \in Pagings, bound \in BOOLEAN :
           GetMemories(i, PlayerId, p.Limit, p.Offset, bound)

(***************************************************************************)
(* Spec: the operations of the service clients of a facade initialised     *)
(* with ConfigA, and every answer the transport can give.                  *)
(***************************************************************************)
Init ==
    /\ client = ClientInitialize(NewClient, <<>>, ConfigA).client
    /\ objs = ClientInitialize(NewClient, <<>>, ConfigA).objs
    /\ calls = <<>>
    /\ http = <<>>
    /\ count = [client |-> 1, service |-> 0, calls |-> MaxCalls]
    /\ last = [step |-> "Initialize", InConfig |-> ConfigA]

Next ==
    \/ Operations
    \/ \E r \in DOMAIN http, o \in Outcomes, u \in UninitEnum :
           Complete(r, o[1], o[2], u)

Spec == Init /\ [][Next]_vars

(***************************************************************************)
(* SpecClient: the facade from its construction, with Initialize calls,    *)
(* Initialize calls on the service clients, operations and completions.    *)
(***************************************************************************)
InitClient ==
    /\ client = NewClient
    /\ objs = <<>>
    /\ calls = <<>>
    /\ http = <<>>
    /\ count = [client |-> 0, service |-> 0, calls |-> MaxClientCalls]
    /\ last = [step |-> "NewObject"]

NextClient ==
    \/ \E InConfig \in Configs : Initialize(InConfig)
    \/ \E i \in ServiceClients :
           InitializeService(i, "https://other.example", "key-C", 5)
    \/ Operations
    \/ \E r \in DOMAIN http, o \in ClientOutcomes, u \in UninitEnum :
           Complete(r, o[1], o[2], u)

SpecClient == InitClient /\ [][NextClient]_vars

(***************************************************************************)
(* SpecLifetime: SpecClient with the garbage collector: a service object   *)
(* the facade no longer refers to can be destroyed while its requests are  *)
(* in flight.                                                              *)
(***************************************************************************)
NextLifetime ==
    \/ NextClient
    \/ CollectGarbage
    \/ \E r \in DOMAIN http, o \in ClientOutcomes, u \in UninitEnum :
           CompleteDestroyed(r, o[1], o[2], u)

SpecLifetime == InitClient /\ [][NextLifetime]_vars

(***************************************************************************)
(* SpecFacade: the facade alone, from its construction: Initialize calls   *)
(* and the setters.                                                        *)
(***************************************************************************)
NextFacade ==
    \/ \E InConfig \in Configs : Initialize(InConfig)
    \/ \E InPlayerId \in PlayerIds \cup {"player-456"} : SetPlayerId(InPlayerId)
    \/ \E InGameId \in GameIds : SetGameId(InGameId)

SpecFacade == InitClient /\ [][NextFacade]_vars

(***************************************************************************)
(* SpecDecode: the decoders applied to bodies that are JSON objects with   *)
(* keys missing or holding values of another type.                         *)
(***************************************************************************)
DecodeBodies ==
    VariantTexts \cup {EmptyObjectText, NoArrayText} \cup FullTexts \cup ListTexts

\* a body has arrived and no decoder has been applied to it yet
InitDecode ==
    /\ client = NewClient
    /\ objs = <<>>
    /\ calls = <<>>
    /\ http = <<>>
    /\ count = [client |-> 0, service |-> 0, calls |-> 0]
    /\ \E JsonString \in DecodeBodies, u \in UninitEnum :
           last = [step |-> "body", JsonString |-> JsonString, u |-> u]

NextDecode ==
    \/ /\ last.step = "body"
       /\ CallEmotionDeserializeResponse(last.JsonString, last.u)
    \/ /\ last.step = "body"
       /\ CallDialogueDeserializeResponse(last.JsonString)
    \/ /\ last.step = "body"
       /\ CallDeserializeMemory(last.JsonString, last.u)
    \/ /\ last.step = "body"
       /\ CallDeserializeSearchResults(last.JsonString, last.u)
    \/ /\ last.step = "body"
       /\ CallDeserializeMemories(last.JsonString, last.u)

SpecDecode == InitDecode /\ [][NextDecode]_vars

(***************************************************************************)
(* SpecImportance: a CreateMemoryRequest is encoded, and a memory whose    *)
(* importance is the request's is decoded.                                 *)
(***************************************************************************)
ImportanceRequests ==
    {[Type |-> t, Content |-> n, Emotion |-> e, Context |-> c, Importance |-> i] :
        t \in {EAGLMemoryType.FirstTime, 255}, n \in {"", "Won first match"},
        e \in {"", "cheerful"}, c \in {EmptyObject, [player_health |-> "85.5"]},
        i \in Importances}

InitImportance ==
    /\ client = NewClient
    /\ objs = <<>>
    /\ calls = <<>>
    /\ http = <<>>
    /\ count = [client |-> 0, service |-> 0, calls |-> 0]
    /\ \E Request \in ImportanceRequests, u \in UninitEnum :
           last = [step |-> "request", Request |-> Request, u |-> u]

NextImportance ==
    \/ /\ last.step = "request"
       /\ CallSerializeCreateMemoryRequest(last.Request)
    \/ /\ last.step = "request"
       /\ CallDeserializeMemory(ImportanceText(last.Request.Importance), last.u)

SpecImportance == InitImportance /\ [][NextImportance]_vars

(***************************************************************************)
(* SpecRequests: the operations of the service clients of a facade         *)
(* initialised with either configuration, over a wider range of arguments; *)
(* the requests stay in flight.                                            *)
(***************************************************************************)
InitRequests ==
    \E InConfig \in {ConfigA, ConfigB} :
        /\ client = ClientInitialize(NewClient, <<>>, InConfig).client
        /\ objs = ClientInitialize(NewClient, <<>>, InConfig).objs
        /\ calls = <<>>
        /\ http = <<>>
        /\ count = [client |-> 1, service |-> 0, calls |-> MaxRequests]
        /\ last = [step |-> "Initialize", InConfig |-> InConfig]

NextRequests ==
    \/ \E i \in ServiceClients, Request \in RequestEmotionRequests, bound \in BOOLEAN :
           AnalyzeEmotion(i, Request, bound)
    \/ \E i \in ServiceClients, Request \in RequestDialogueRequests, bound \in BOOLEAN :
           GenerateDialogue(i, Request, bound)
    \/ \E i \in ServiceClients, PlayerId \in RequestPlayerIds,
          Request \in RequestCreateMemoryRequests, bound \in BOOLEAN :
           CreateMemory(i, PlayerId, Request, bound)
    \/ \E i \in ServiceClients, PlayerId \in RequestPlayerIds,
          Request \in WideSearchMemoriesRequests, bound \in BOOLEAN :
           SearchMemories(i, PlayerId, Request, bound)
    \/ \E i \in ServiceClients, PlayerId \in RequestPlayerIds,
          Request \in WideGetContextRequests, bound \in BOOLEAN :
           GetContext(i, PlayerId, Request, bound)
    \/ \E i \in ServiceClients, PlayerId \in RequestPlayerIds, p \in RequestPagings,
          bound \in BOOLEAN :
           GetMemories(i, PlayerId, p.Limit, p.Offset, bound)

SpecRequests == InitRequests /\ [][NextRequests]_vars

(***************************************************************************)
(* SpecCodec: the encoders, decoders and request constructors, called on   *)
(* the service clients of an initialised facade.                           *)
(***************************************************************************)
NextCodec ==
    \/ \E EventType \in EventTypes : CallEmotionEventTypeToString(EventType)
    \/ \E EventType \in EventTypes : CallDialogueEventTypeToString(EventType)
    \/ \E EmotionType \in EmotionTypes : CallEmotionTypeToString(EmotionType)
    \/ \E Persona \in Personas : CallPersonaToString(Persona)
    \/ \E MemoryType \in MemoryTypes : CallMemoryTypeToString(MemoryType)
    \/ \E EmotionString \in WireStrings : CallStringToEmotionType(EmotionString)
    \/ \E TypeString \in WireStrings : CallStringToMemoryType(TypeString)
    \/ \E Request \in WideEmotionRequests : CallEmotionSerializeRequest(Request)
    \/ \E Request \in WideDialogueRequests : CallDialogueSerializeRequest(Request)
    \/ \E Request \in WideCreateMemoryRequests : CallSerializeCreateMemoryRequest(Request)
    \/ \E Request \in WideSearchMemoriesRequests : CallSerializeSearchRequest(Request)
    \/ \E Request \in WideGetContextRequests : CallSerializeContextRequest(Request)
    \/ \E JsonString \in CodecBodies, u \in UninitEnum :
           CallEmotionDeserializeResponse(JsonString, u)
    \/ \E JsonString \in CodecBodies : CallDialogueDeserializeResponse(JsonString)
    \/ \E JsonString \in CodecBodies, u \in UninitEnum :
           CallDeserializeMemory(JsonString, u)
    \/ \E bIsMVP \in BOOLEAN, WinStreak \in Streaks :
           CallCreateVictoryRequest(bIsMVP, WinStreak)
    \/ \E LossStreak \in Streaks : CallCreateDefeatRequest(LossStreak)
    \/ \E Rarity \in Rarities : CallCreateAchievementRequest(Rarity)
    \/ \E KillCount \in Streaks, bIsLegendary \in BOOLEAN :
           CallCreateKillRequest(KillCount, bIsLegendary)

SpecCodec == Init /\ [][NextCodec]_vars

(***************************************************************************)
(* AAGLVisionCapture (sdk/vision/plugins/unreal): the capture actor.       *)
(* Times are whole units; the actor is the one element of objs.            *)
(***************************************************************************)

\* bound: the number of Tick calls of one run
MaxTicks == 4

\* bound: the number of CaptureNow calls of one run
MaxCaptures == 2

\* values of the editable property CaptureInterval, in time units
CaptureIntervals == {2, 3}

\* values of the DeltaTime the engine passes to Tick, in time units
DeltaTimes == {1, 2, 5}

\* AAGLVisionCapture::AAGLVisionCapture, with the editable properties
\* bAutoStart and CaptureInterval as the level sets them.  RenderTarget is 0
\* for null and 1 for the render target object.  Not members: phase (where
\* the engine is in the actor's life), sent (frames handed to JavaScript),
\* autos (captures started by Tick) and elapsed (time since the previous
\* capture started by Tick, -1 before the first one).
AAGLVisionCapture(bAutoStart, CaptureInterval) ==
    [kind |-> "AAGLVisionCapture",
     CaptureInterval |-> CaptureInterval,
     bAutoStart |-> bAutoStart,
     RenderTarget |-> 0,
     bIsCapturing |-> FALSE,
     TimeAccumulator |-> 0,
     phase |-> "constructed",
     sent |-> 0,
     autos |-> 0,
     elapsed |-> -1]

\* AAGLVisionCapture::IsCapturing
IsCapturing(a) == a.bIsCapturing

\* AAGLVisionCapture::InitializeRenderTarget
InitializeRenderTarget(a) ==
    IF a.RenderTarget = 0 THEN [a EXCEPT !.RenderTarget = 1] ELSE a

\* AAGLVisionCapture::CleanupRenderTarget
CleanupRenderTarget(a) ==
    IF a.RenderTarget # 0 THEN [a EXCEPT !.RenderTarget = 0] ELSE a

\* AAGLVisionCapture::SendToJavaScript
SendToJavaScript(a) == [a EXCEPT !.sent = @ + 1]

\* PerformCapture without the check of the render target
PerformCapture_NoTargetCheck(a, bEncoded) ==
    IF bEncoded THEN SendToJavaScript(a) ELSE a

\* AAGLVisionCapture::PerformCapture.  bEncoded: the world, the viewport, the
\* render target resource, ReadPixels and the JPEG compression all succeeded.
PerformCapture(a, bEncoded) ==
    IF a.RenderTarget = 0 THEN a
    ELSE IF bEncoded THEN SendToJavaScript(a)
    ELSE a

\* StartCapture without its early return
StartCapture_AlwaysResets(a) ==
    [a EXCEPT !.bIsCapturing = TRUE, !.TimeAccumulator = 0]

\* AAGLVisionCapture::StartCapture
StartCapture(a) ==
    IF a.bIsCapturing THEN a
    ELSE [a EXCEPT !.bIsCapturing = TRUE, !.TimeAccumulator = 0]

\* AAGLVisionCapture::StopCapture
StopCapture(a) ==
    IF ~a.bIsCapturing THEN a
    ELSE [a EXCEPT !.bIsCapturing = FALSE]

\* AAGLVisionCapture::CaptureNow
CaptureNow(a, bEncoded) == PerformCapture(a, bEncoded)

\* the clock of the captures started by Tick, after DeltaTime has passed
Elapse(a, DeltaTime) ==
    IF a.elapsed < 0 THEN a ELSE [a EXCEPT !.elapsed = @ + DeltaTime]

\* Tick without the reset of the accumulator
Tick_KeepsAccumulator(a, DeltaTime, bEncoded) ==
    LET e == Elapse(a, DeltaTime)
    IN  IF e.bIsCapturing
        THEN LET t == [e EXCEPT !.TimeAccumulator = @ + DeltaTime]
             IN  IF t.TimeAccumulator >= t.CaptureInterval
                 THEN PerformCapture([t EXCEPT !.autos = @ + 1,
                                               !.elapsed = 0],
                                     bEncoded)
                 ELSE t
        ELSE e

\* AAGLVisionCapture::Tick
Tick(a, DeltaTime, bEncoded) ==
    LET e == Elapse(a, DeltaTime)
    IN  IF e.bIsCapturing
        THEN LET t == [e EXCEPT !.TimeAccumulator = @ + DeltaTime]
             IN  IF t.TimeAccumulator >= t.CaptureInterval
                 THEN PerformCapture([t EXCEPT !.TimeAccumulator = 0,
                                               !.autos = @ + 1,
                                               !.elapsed = 0],
                                     bEncoded)
                 ELSE t
        ELSE e

\* AAGLVisionCapture::BeginPlay
BeginPlay(a) ==
    LET r == [InitializeRenderTarget(a) EXCEPT !.phase = "playing"]
    IN  IF r.bAutoStart THEN StartCapture(r) ELSE r

\* AAGLVisionCapture::EndPlay
EndPlay(a) ==
    [CleanupRenderTarget(StopCapture(a)) EXCEPT !.phase = "ended"]

\* the actor
Actor == objs[1]

\* one call on the actor: it becomes after, last records the call
ActorStep(step, after, DeltaTime) ==
    /\ objs' = <<after>>
    /\ last' = [step |-> step, DeltaTime |-> DeltaTime]
    /\ UNCHANGED <<client, calls, http>>

\* the engine begins play
CallBeginPlay ==
    /\ Actor.phase = "constructed"
    /\ ActorStep("BeginPlay", BeginPlay(Actor), 0)
    /\ UNCHANGED count

\* the engine ends play
CallEndPlay ==
    /\ Actor.phase = "playing"
    /\ ActorStep("EndPlay", EndPlay(Actor), 0)
    /\ UNCHANGED count

\* the engine ticks the actor, which it does between BeginPlay and EndPlay
CallTick(DeltaTime, bEncoded) ==
    /\ Actor.phase = "playing"
    /\ count.ticks < MaxTicks
    /\ count' = [count EXCEPT !.ticks = @ + 1]
    /\ ActorStep("Tick", Tick(Actor, DeltaTime, bEncoded), DeltaTime)

\* game code calls StartCapture
CallStartCapture ==
    /\ ActorStep("StartCapture", StartCapture(Actor), 0)
    /\ UNCHANGED count

\* game code calls StopCapture
CallStopCapture ==
    /\ ActorStep("StopCapture", StopCapture(Actor), 0)
    /\ UNCHANGED count

\* game code calls CaptureNow
CallCaptureNow(bEncoded) ==
    /\ count.captures < MaxCaptures
    /\ count' = [count EXCEPT !.captures = @ + 1]
    /\ ActorStep("CaptureNow", CaptureNow(Actor, bEncoded), 0)

\* a constructed actor that has not begun play
InitVision ==
    /\ client = NewClient
    /\ objs \in {<<AAGLVisionCapture(b, i)>> : b \in BOOLEAN, i \in CaptureIntervals}
    /\ calls = <<>>
    /\ http = <<>>
    /\ count = [ticks |-> 0, captures |-> 0]
    /\ last = [step |-> "constructed", DeltaTime |-> 0]

NextVision ==
    \/ CallBeginPlay
    \/ CallEndPlay
    \/ \E DeltaTime \in DeltaTimes, bEncoded \in BOOLEAN :
           CallTick(DeltaTime, bEncoded)
    \/ CallStartCapture
    \/ CallStopCapture
    \/ \E bEncoded \in BOOLEAN : CallCaptureNow(bEncoded)

SpecVision == InitVision /\ [][NextVision]_vars

(***************************************************************************)
(* Properties of the response handling (checked under Spec).               *)
(***************************************************************************)

\* the request of call c has been completed by the transport
Completed(c) ==
    \E r \in DOMAIN http : http[r].OnComplete = c /\ ~http[r].pending

\* the statuses an operation accepts
Accepted(op) == IF op = "createMemory" THEN {200, 201} ELSE {200}

\* the default results of an operation: a struct as its constructor leaves
\* it, or an empty list
Defaults(op) ==
    CASE op = "analyzeEmotion" -> {FAGLEmotionResponse(u) : u \in UninitEnum}
      [] op = "generateDialogue" -> {FAGLDialogueResponse}
      [] op = "createMemory" -> {FAGLMemory(u) : u \in UninitEnum}
      [] OTHER -> {<<>>}

\* the last step completed a request and reported (bSuccess, a default
\* result) to the caller's delegate, once if it is bound
ReportedDefault(bSuccess) ==
    /\ Len(last.execs) = (IF calls[last.delegate].bound THEN 1 ELSE 0)
    /\ \A k \in DOMAIN last.execs :
           /\ last.execs[k].bSuccess = bSuccess
           /\ last.execs[k].result \in Defaults(last.op)

\* the last step completed a request whose transport succeeded with a
\* response
Answered == last.step = "complete" /\ last.bWasSuccessful /\ last.Response.valid

\* C1 (as stated): the completion handler of every call whose request the
\* transport has completed has been invoked exactly once, whatever handler
\* value the caller passed, and no handler is ever invoked more than once.
C1_InvokedExactlyOnce ==
    \A c \in DOMAIN calls :
        /\ calls[c].invoked <= 1
        /\ Completed(c) => calls[c].invoked = 1

\* C1 (amended): a handler is never invoked more than once and never before
\* the transport completes the call's request; once it has, a bound handler
\* has been invoked exactly once and an unbound one not at all.
C1_BoundInvokedExactlyOnce ==
    \A c \in DOMAIN calls :
        /\ calls[c].invoked <= 1
        /\ ~Completed(c) => calls[c].invoked = 0
        /\ Completed(c) => calls[c].invoked = (IF calls[c].bound THEN 1 ELSE 0)

\* C1 witness: a request failed in the transport and its bound handler has
\* been invoked once
C1_Witness ==
    /\ last.step = "complete"
    /\ ~last.bWasSuccessful
    /\ calls[last.delegate].bound
    /\ calls[last.delegate].invoked = 1
    /\ Completed(last.delegate)

\* C2: when the transport reports failure or hands over no response, the
\* handler gets (false, default result or empty list), the body is not
\* decoded and success is never reported.
C2_TransportFailure ==
    (last.step = "complete" /\ (~last.bWasSuccessful \/ ~last.Response.valid))
        => (~last.decoded /\ ReportedDefault(FALSE))

\* C2 witness: a transport failure that came with a well-formed 200 response
\* was reported as (false, default) to a bound handler
C2_Witness ==
    /\ last.step = "complete"
    /\ ~last.bWasSuccessful
    /\ last.Response.valid
    /\ last.Response.code = 200
    /\ last.Response.body = WellFormedText
    /\ calls[last.delegate].bound
    /\ last.execs # <<>>
    /\ ~last.execs[1].bSuccess

\* C3: a response whose status the operation does not accept (200; 201 too
\* for createMemory) is reported as (false, default) whatever its body, and
\* 201 is a success for createMemory only.
C3_UnacceptedStatus ==
    Answered =>
        /\ last.Response.code \notin Accepted(last.op)
               => (~last.decoded /\ ReportedDefault(FALSE))
        /\ (last.Response.code = 201 /\ last.Response.body = WellFormedText)
               => \A k \in DOMAIN last.execs :
                      last.execs[k].bSuccess = (last.op = "createMemory")

\* C3 witness: a 201 response with a well-formed body was reported as a
\* failure by an operation other than createMemory
C3_Witness ==
    /\ Answered
    /\ last.op = "searchMemories"
    /\ last.Response.code = 201
    /\ last.Response.body = WellFormedText
    /\ calls[last.delegate].bound
    /\ last.execs = <<Exec(FALSE, <<>>)>>

\* C4 (as stated): a transport success with any 2xx status is reported with
\* success = true.
C4_Any2xxSucceeds ==
    (Answered /\ last.Response.code \in 200..299)
        => \A k \in DOMAIN last.execs : last.execs[k].bSuccess

\* C4 (amended): success = true is reported exactly when the transport
\* succeeded with a response whose status is 200 (or 201 for createMemory)
\* and, for createMemory, whose body parses as a JSON object.
C4_SuccessIffAccepted ==
    last.step = "complete" =>
        \A k \in DOMAIN last.execs :
            last.execs[k].bSuccess <=>
                /\ last.bWasSuccessful
                /\ last.Response.valid
                /\ last.Response.code \in Accepted(last.op)
                /\ last.op = "createMemory"
                       => DeserializeOk(ReadJson(last.Response.body))

\* C4 witness: a 204 answer to generateDialogue was reported as a failure
C4_Witness ==
    /\ Answered
    /\ last.op = "generateDialogue"
    /\ last.Response.code = 204
    /\ calls[last.delegate].bound
    /\ last.execs = <<Exec(FALSE, FAGLDialogueResponse)>>

\* C5: on every decode path, createMemory included, an accepted status with
\* a body that is not a JSON object is reported as (true, default result or
\* empty list).
C5_UnparseableBodyIsSuccess ==
    (/\ Answered
     /\ last.Response.code \in Accepted(last.op)
     /\ ~DeserializeOk(ReadJson(last.Response.body)))
        => ReportedDefault(TRUE)

\* C6: a completion executes the delegate passed to the call that issued
\* the completed request, with a result computed by that operation's handler
\* from that request's outcome; the handlers of the calls still outstanding
\* stay uninvoked, whatever the order of the completions.
C6_OwnOutcome ==
    /\ \A r \in DOMAIN http :
           http[r].pending => calls[http[r].OnComplete].invoked = 0
    /\ last.step = "complete" =>
           /\ last.delegate = http[last.req].OnComplete
           /\ calls[last.delegate].invoked = Len(last.execs)
           /\ Len(last.execs) <= 1
           /\ \A k \in DOMAIN last.execs :
                  \E u \in UninitEnum :
                      <<last.execs[k]>> =
                          RunHandler(last.handler, last.Response,
                                     last.bWasSuccessful, u).execs

\* C6 witness: the second of two outstanding calls completed first and its
\* handler was invoked, the first call's handler was not
C6_Witness ==
    /\ Len(http) = 2
    /\ http[1].pending
    /\ last.step = "complete"
    /\ last.req = 2
    /\ last.delegate = 2
    /\ calls[1].bound /\ calls[2].bound
    /\ calls[2].invoked = 1
    /\ calls[1].invoked = 0

\* C7: every call issues exactly one HTTP request of its own: a failed
\* attempt is not retried and a call identical to an earlier one is neither
\* merged with it nor answered from its response.
C7_OneRequestPerCall ==
    /\ Len(http) = Len(calls)
    /\ \A c \in DOMAIN calls :
           Cardinality({r \in DOMAIN http : http[r].OnComplete = c}) = 1
    /\ \A r \in DOMAIN http :
           http[r].pending => ~Completed(http[r].OnComplete)

\* C7 witness: a request failed in the transport while an identical request
\* of another call is still in flight, and there are two requests in all
C7_Witness ==
    /\ last.step = "complete"
    /\ ~last.bWasSuccessful
    /\ last.req = 1
    /\ Len(http) = 2
    /\ Len(calls) = 2
    /\ http[2].pending
    /\ http[2].request = last.request

(***************************************************************************)
(* Properties of the facade (checked under SpecFacade and SpecClient).     *)
(***************************************************************************)

\* the (url, key, timeout) of a service client
Triple(svc) == <<svc.ServiceUrl, svc.ApiKey, svc.Timeout>>

\* C8: after Initialize with an empty API key the facade is un-initialized,
\* whatever its state before the call.
C8_EmptyKeyUninitialized ==
    (last.step = "Initialize" /\ last.InConfig.ApiKey = "") => ~IsInitialized

\* C9: after Initialize with a non-empty API key IsInitialized holds and the
\* emotion, dialogue and memory clients hold the configuration's
\* EmotionServiceUrl, DialogueServiceUrl and MemoryServiceUrl with its API
\* key and timeout; none holds ApiBaseUrl.
C9_InitializeConfiguresServices ==
    (last.step = "Initialize" /\ last.InConfig.ApiKey # "") =>
        /\ IsInitialized
        /\ ServiceClients = {GetEmotionService, GetDialogueService, GetMemoryService}
        /\ Triple(objs[GetEmotionService]) =
               <<last.InConfig.EmotionServiceUrl, last.InConfig.ApiKey,
                 last.InConfig.Timeout>>
        /\ Triple(objs[GetDialogueService]) =
               <<last.InConfig.DialogueServiceUrl, last.InConfig.ApiKey,
                 last.InConfig.Timeout>>
        /\ Triple(objs[GetMemoryService]) =
               <<last.InConfig.MemoryServiceUrl, last.InConfig.ApiKey,
                 last.InConfig.Timeout>>
        /\ \A i \in ServiceClients : objs[i].ServiceUrl # last.InConfig.ApiBaseUrl

\* C9 witness: a second Initialize, with the non-default configuration, has
\* configured the three clients
C9_Witness ==
    /\ last.step = "Initialize"
    /\ last.InConfig = ConfigB
    /\ count.client = 2
    /\ IsInitialized
    /\ objs[GetMemoryService].ServiceUrl = ConfigB.MemoryServiceUrl
    /\ objs[GetMemoryService].Timeout = ConfigB.Timeout

OperationNames ==
    {"analyzeEmotion", "generateDialogue", "createMemory", "searchMemories",
     "getContext", "getMemories"}

\* C11: every request in flight, the GET of getMemories included, carries
\* Content-Type: application/json, X-API-Key equal to the API key its client
\* was initialised with, and the configured timeout.
C11_HeadersAndTimeout ==
    \A r \in DOMAIN http :
        LET q == http[r].request
        IN  /\ {"Content-Type", "X-API-Key"} \subseteq DOMAIN q.headers
            /\ q.headers["Content-Type"] = "application/json"
            /\ q.headers["X-API-Key"] = client.Config.ApiKey
            /\ q.timeout = client.Config.Timeout

\* C11 witness: a GET dispatched by the memory client of a facade
\* initialised with the second configuration carries its key and timeout
C11_Witness ==
    /\ last.step = "getMemories"
    /\ http[last.call].request.verb = "GET"
    /\ http[last.call].request.headers["Content-Type"] = "application/json"
    /\ http[last.call].request.headers["X-API-Key"] = "key-B"
    /\ http[last.call].request.timeout = ConfigB.Timeout

\* the decimal text of the numbers drawn for limit and offset
DecimalText(n) ==
    CASE n = 0 -> "0" [] n = 5 -> "5" [] n = 10 -> "10" [] n = 25 -> "25"
      [] n = -1 -> "-1"

\* the path of the endpoint table
EndpointPath(op, args) ==
    CASE op = "analyzeEmotion" -> "/analyze"
      [] op = "generateDialogue" -> "/generate"
      [] op = "createMemory" -> "/players/" \o args.PlayerId \o "/memories"
      [] op = "searchMemories" -> "/players/" \o args.PlayerId \o "/memories/search"
      [] op = "getContext" -> "/players/" \o args.PlayerId \o "/memories/context"
      [] op = "getMemories" ->
             "/players/" \o args.PlayerId \o "/memories?limit="
                 \o DecimalText(args.Limit) \o "&offset=" \o DecimalText(args.Offset)

\* the body of the endpoint table
EndpointBody(op, args) ==
    CASE op = "analyzeEmotion" -> EmotionSerializeRequest(args.Request)
      [] op = "generateDialogue" -> DialogueSerializeRequest(args.Request)
      [] op = "createMemory" -> SerializeCreateMemoryRequest(args.Request)
      [] op = "searchMemories" -> SerializeSearchRequest(args.Request)
      [] op = "getContext" -> SerializeContextRequest(args.Request)
      [] op = "getMemories" -> NoContent

\* C12: the request an operation dispatches has the method, URL and body of
\* the endpoint table: POST with the encoded request for five operations,
\* GET without a body for getMemories only.
C12_EndpointTable ==
    last.step \in OperationNames =>
        LET q == http[last.call].request
        IN  /\ q.verb = (IF last.step = "getMemories" THEN "GET" ELSE "POST")
            /\ q.url = objs[last.this].ServiceUrl \o EndpointPath(last.step, last.args)
            /\ q.content = EndpointBody(last.step, last.args)
            /\ (q.content = NoContent) <=> (last.step = "getMemories")

\* C12 witness: getContext for the second player was posted to that
\* player's memories/context URL of the memory service
C12_Witness ==
    /\ last.step = "getContext"
    /\ last.args.PlayerId = "player-456"
    /\ client.Config = ConfigB
    /\ http[last.call].request.verb = "POST"
    /\ http[last.call].request.url =
           "https://memory.example/players/player-456/memories/context"

(***************************************************************************)
(* Properties of the encoders and decoders (checked under SpecCodec).      *)
(***************************************************************************)

\* the calls of the five request encoders
SerializeSteps ==
    {"UAGLEmotionService::SerializeRequest", "UAGLDialogueService::SerializeRequest",
     "SerializeCreateMemoryRequest", "SerializeSearchRequest", "SerializeContextRequest"}

\* the wire keys of the optional string fields of a request
OptionalKeys(step) ==
    CASE step = "UAGLDialogueService::SerializeRequest" -> {"player_id", "language"}
      [] step = "SerializeCreateMemoryRequest" -> {"emotion"}
      [] OTHER -> {}

\* C13: an encoded DialogueRequest has the key player_id, with the player id
\* as value, exactly when playerId is not empty; an encoded
\* CreateMemoryRequest has the key emotion exactly when emotion is not empty;
\* no payload has an optional key with an empty string as value.
C13_OptionalStringsOmitted ==
    /\ last.step = "UAGLDialogueService::SerializeRequest" =>
           /\ ("player_id" \in DOMAIN last.out.v) <=> (last.in.PlayerId # "")
           /\ last.in.PlayerId # "" => last.out.v["player_id"] = JS(last.in.PlayerId)
    /\ last.step = "SerializeCreateMemoryRequest" =>
           /\ ("emotion" \in DOMAIN last.out.v) <=> (last.in.Emotion # "")
           /\ last.in.Emotion # "" => last.out.v["emotion"] = JS(last.in.Emotion)
    /\ last.step \in SerializeSteps =>
           \A k \in OptionalKeys(last.step) \cap DOMAIN last.out.v :
               last.out.v[k] # JS("")

\* C13 witness: a DialogueRequest with empty playerId and empty language was
\* encoded without either key
C13_Witness ==
    /\ last.step = "UAGLDialogueService::SerializeRequest"
    /\ last.in.PlayerId = ""
    /\ last.in.Language = ""
    /\ last.out.t = "object"
    /\ {"player_id", "language"} \cap DOMAIN last.out.v = {}
    /\ "event_type" \in DOMAIN last.out.v

\* the keys force_ml, force_llm, importance and limit are in the payloads
\* of their requests, with the request's value
ScalarsAlwaysEmitted ==
    /\ last.step = "UAGLEmotionService::SerializeRequest" =>
           /\ "force_ml" \in DOMAIN last.out.v
           /\ last.out.v["force_ml"] = JB(last.in.bForceML)
    /\ last.step = "UAGLDialogueService::SerializeRequest" =>
           /\ "force_llm" \in DOMAIN last.out.v
           /\ last.out.v["force_llm"] = JB(last.in.bForceLLM)
    /\ last.step = "SerializeCreateMemoryRequest" =>
           /\ "importance" \in DOMAIN last.out.v
           /\ last.out.v["importance"] = JN(last.in.Importance)
    /\ last.step \in {"SerializeSearchRequest", "SerializeContextRequest"} =>
           /\ "limit" \in DOMAIN last.out.v
           /\ last.out.v["limit"] = JN(last.in.Limit)

\* the key context is in the payload exactly when the map is not empty
ContextOmittedWhenEmpty ==
    last.step \in {"UAGLEmotionService::SerializeRequest",
                   "UAGLDialogueService::SerializeRequest",
                   "SerializeCreateMemoryRequest"} =>
        /\ ("context" \in DOMAIN last.out.v) <=> (DOMAIN last.in.Context # {})
        /\ DOMAIN last.in.Context # {} =>
               last.out.v["context"] = JO([k \in DOMAIN last.in.Context |->
                                              JS(last.in.Context[k])])

\* C14 (as stated): data and context are in the payload exactly when their
\* map is not empty; force_ml, force_llm, importance and limit always are.
C14_MapsOmittedWhenEmpty ==
    /\ ScalarsAlwaysEmitted
    /\ ContextOmittedWhenEmpty
    /\ last.step = "UAGLEmotionService::SerializeRequest" =>
           (("data" \in DOMAIN last.out.v) <=> (DOMAIN last.in.Data # {}))

\* C14 (amended): context is in the payload exactly when its map is not
\* empty, data is in the payload of every EmotionRequest, as an empty object
\* when the map is empty, and force_ml, force_llm, importance and limit are
\* in the payload for every value, false and 0 included.
C14_DataAlwaysContextWhenNonEmpty ==
    /\ ScalarsAlwaysEmitted
    /\ ContextOmittedWhenEmpty
    /\ last.step = "UAGLEmotionService::SerializeRequest" =>
           /\ "data" \in DOMAIN last.out.v
           /\ last.out.v["data"] = JO([k \in DOMAIN last.in.Data |->
                                          JS(last.in.Data[k])])

\* C14 witness: an EmotionRequest with empty data, empty context and
\* forceMl = false was encoded with data = {}, force_ml = false and no
\* context
C14_Witness ==
    /\ last.step = "UAGLEmotionService::SerializeRequest"
    /\ DOMAIN last.in.Data = {}
    /\ DOMAIN last.in.Context = {}
    /\ ~last.in.bForceML
    /\ last.out.v["data"] = JO(EmptyObject)
    /\ last.out.v["force_ml"] = JB(FALSE)
    /\ "context" \notin DOMAIN last.out.v

\* the string tables of the wire contract, by enumerator
EventTypeNames ==
    [Victory |-> "player.victory", Defeat |-> "player.defeat", Kill |-> "player.kill",
     Death |-> "player.death", Achievement |-> "player.achievement",
     LevelUp |-> "player.levelup", Loot |-> "player.loot",
     SessionStart |-> "player.sessionstart", SessionEnd |-> "player.sessionend"]

EmotionTypeNames ==
    [Happy |-> "happy", Excited |-> "excited", Amazed |-> "amazed", Proud |-> "proud",
     Satisfied |-> "satisfied", Cheerful |-> "cheerful", Grateful |-> "grateful",
     Sad |-> "sad", Disappointed |-> "disappointed", Frustrated |-> "frustrated",
     Angry |-> "angry", Worried |-> "worried", Tired |-> "tired", Neutral |-> "neutral"]

PersonaNames == [Cheerful |-> "cheerful", Cool |-> "cool", Cute |-> "cute"]

MemoryTypeNames ==
    [Achievement |-> "achievement", Milestone |-> "milestone", FirstTime |-> "first_time",
     Dramatic |-> "dramatic", Conversation |-> "conversation", Event |-> "event",
     Observation |-> "observation"]

\* the table entry of value v of enumeration E, Unmapped for a value outside
NameOf(E, Names, Unmapped, v) ==
    IF v \in EnumValues(E)
    THEN Names[CHOOSE k \in DOMAIN E : E[k] = v]
    ELSE Unmapped

\* C15: every enum value is encoded as the string of its table, in the
\* *ToString functions and in the payloads: "player.<name>" for the 9 event
\* types, the lowercase name for the 14 emotions, the 3 personas and the 7
\* memory types (first_time for FirstTime); a value outside the enumeration
\* gives "unknown" (event type), "cheerful" (persona), "event" (memory
\* type); the two EventTypeToString functions agree on every value.
C15_EnumStringTables ==
    /\ last.step \in {"UAGLEmotionService::EventTypeToString",
                      "UAGLDialogueService::EventTypeToString"} =>
           /\ last.out = NameOf(EAGLEventType, EventTypeNames, "unknown", last.in)
           /\ EmotionEventTypeToString(last.in) = DialogueEventTypeToString(last.in)
    /\ (last.step = "EmotionTypeToString" /\ last.in \in EnumValues(EAGLEmotionType)) =>
           last.out = NameOf(EAGLEmotionType, EmotionTypeNames, "", last.in)
    /\ last.step = "PersonaToString" =>
           last.out = NameOf(EAGLPersona, PersonaNames, "cheerful", last.in)
    /\ last.step = "MemoryTypeToString" =>
           last.out = NameOf(EAGLMemoryType, MemoryTypeNames, "event", last.in)
    /\ last.step = "UAGLEmotionService::SerializeRequest" =>
           last.out.v["type"] =
               JS(NameOf(EAGLEventType, EventTypeNames, "unknown", last.in.EventType))
    /\ last.step = "UAGLDialogueService::SerializeRequest" =>
           /\ last.out.v["event_type"] =
                  JS(NameOf(EAGLEventType, EventTypeNames, "unknown", last.in.EventType))
           /\ last.in.Emotion \in EnumValues(EAGLEmotionType) =>
                  last.out.v["emotion"] =
                      JS(NameOf(EAGLEmotionType, EmotionTypeNames, "", last.in.Emotion))
           /\ last.out.v["emotion"].t = "string"
           /\ last.out.v["persona"] =
                  JS(NameOf(EAGLPersona, PersonaNames, "cheerful", last.in.Persona))
    /\ last.step = "SerializeCreateMemoryRequest" =>
           last.out.v["type"] =
               JS(NameOf(EAGLMemoryType, MemoryTypeNames, "event", last.in.Type))

\* C15 witness: a DialogueRequest whose event type and persona are outside
\* their enumerations was encoded with "unknown" and "cheerful"
C15_Witness ==
    /\ last.step = "UAGLDialogueService::SerializeRequest"
    /\ last.in.EventType \notin EnumValues(EAGLEventType)
    /\ last.in.Persona \notin EnumValues(EAGLPersona)
    /\ last.out.v["event_type"] = JS("unknown")
    /\ last.out.v["persona"] = JS("cheerful")

\* C16: decoding the wire string of an EmotionType value gives the value
\* back, and so for MemoryType; no two values of either enumeration share a
\* wire string.
C16_EnumRoundTrip ==
    /\ (last.step = "EmotionTypeToString" /\ last.in \in EnumValues(EAGLEmotionType)) =>
           /\ StringToEmotionType(last.out) = last.in
           /\ \A e \in EnumValues(EAGLEmotionType) \ {last.in} :
                  EmotionTypeToString(e) # last.out
    /\ (last.step = "MemoryTypeToString" /\ last.in \in EnumValues(EAGLMemoryType)) =>
           /\ StringToMemoryType(last.out) = last.in
           /\ \A m \in EnumValues(EAGLMemoryType) \ {last.in} :
                  MemoryTypeToString(m) # last.out

\* C16 witness: FirstTime was encoded as first_time, which decodes to
\* FirstTime
C16_Witness ==
    /\ last.step = "MemoryTypeToString"
    /\ last.in = EAGLMemoryType.FirstTime
    /\ last.out = "first_time"
    /\ StringToMemoryType(last.out) = EAGLMemoryType.FirstTime

\* C17: a string that is not character for character an entry of the table
\* (the empty string and case variants included) decodes to Neutral
\* (EmotionType) or Event (MemoryType).
C17_ExactMatchDecode ==
    /\ (/\ last.step = "StringToEmotionType"
        /\ last.in \notin {EmotionTypeNames[k] : k \in DOMAIN EmotionTypeNames})
           => last.out = EAGLEmotionType.Neutral
    /\ (/\ last.step = "StringToMemoryType"
        /\ last.in \notin {MemoryTypeNames[k] : k \in DOMAIN MemoryTypeNames})
           => last.out = EAGLMemoryType.Event

\* the bodies in which every key of the wire contract is present with a
\* value of its type
WellFormedTexts == {WellFormedText} \cup FullTexts

\* the value of enumeration E whose table entry is s
EnumOf(E, Names, s) == E[CHOOSE k \in DOMAIN Names : Names[k] = s]

\* the strings of a JSON array of strings, and the map of a JSON object of
\* strings
StringsOf(a) == [i \in 1..Len(a) |-> a[i].v]
MapOf(o) == [k \in DOMAIN o |-> o[k].v]

\* C18: decoding a well-formed body gives a response each field of which is
\* the body's value under the field's own wire key: eight keys for a
\* dialogue response, nine for an emotion response, eight for a memory; the
\* enum fields hold the value the string names.
C18_FieldsFromOwnKeys ==
    LET o == ReadJson(last.in).v
    IN  /\ (/\ last.step = "UAGLDialogueService::DeserializeResponse"
            /\ last.in \in WellFormedTexts) =>
               last.out = [Dialogue |-> o["dialogue"].v,
                           Method |-> o["method"].v,
                           Cost |-> o["cost"].v,
                           LatencyMs |-> o["latency_ms"].v,
                           bUsedSpecialCase |-> o["used_special_case"].v,
                           bCacheHit |-> o["cache_hit"].v,
                           MemoryCount |-> o["memory_count"].v,
                           SpecialCaseReasons |-> StringsOf(o["special_case_reasons"].v)]
        /\ (/\ last.step = "UAGLEmotionService::DeserializeResponse"
            /\ last.in \in WellFormedTexts) =>
               last.out = [Emotion |-> EnumOf(EAGLEmotionType, EmotionTypeNames, o["emotion"].v),
                           Intensity |-> o["intensity"].v,
                           Confidence |-> o["confidence"].v,
                           Action |-> o["action"].v,
                           Reasoning |-> o["reasoning"].v,
                           Method |-> o["method"].v,
                           Cost |-> o["cost"].v,
                           bCacheHit |-> o["cache_hit"].v,
                           LatencyMs |-> o["latency_ms"].v]
        /\ (/\ last.step = "DeserializeMemory"
            /\ last.in \in WellFormedTexts) =>
               last.out = [Id |-> o["id"].v,
                           PlayerId |-> o["playerId"].v,
                           Type |-> EnumOf(EAGLMemoryType, MemoryTypeNames, o["type"].v),
                           Content |-> o["content"].v,
                           Emotion |-> o["emotion"].v,
                           Importance |-> o["importance"].v,
                           Context |-> MapOf(o["context"].v),
                           CreatedAt |-> o["createdAt"].v]

\* C18 witness: a body whose used_special_case is true and cache_hit false
\* was decoded to a dialogue response with these two flags
C18_Witness ==
    /\ last.step = "UAGLDialogueService::DeserializeResponse"
    /\ last.in = "{full, used_special_case}"
    /\ last.out.bUsedSpecialCase
    /\ ~last.out.bCacheHit
    /\ last.out.MemoryCount = 2
    /\ last.out.SpecialCaseReasons = <<"streak", "mvp">>

\* the four request helpers of the emotion service
CreateSteps ==
    {"CreateVictoryRequest", "CreateDefeatRequest", "CreateAchievementRequest",
     "CreateKillRequest"}

\* the text of a boolean in a data map
TrueFalse(b) == IF b THEN "true" ELSE "false"

\* the request a helper is to return for its arguments
HelperResult ==
    CASE last.step = "CreateVictoryRequest" ->
             [EventType |-> EAGLEventType.Victory,
              Data |-> [mvp |-> TrueFalse(last.in.bIsMVP),
                        winStreak |-> DecimalText(last.in.WinStreak)],
              Context |-> <<>>, bForceML |-> FALSE]
      [] last.step = "CreateDefeatRequest" ->
             [EventType |-> EAGLEventType.Defeat,
              Data |-> [lossStreak |-> DecimalText(last.in.LossStreak)],
              Context |-> <<>>, bForceML |-> FALSE]
      [] last.step = "CreateAchievementRequest" ->
             [EventType |-> EAGLEventType.Achievement,
              Data |-> [rarity |-> last.in.Rarity],
              Context |-> <<>>, bForceML |-> FALSE]
      [] last.step = "CreateKillRequest" ->
             [EventType |-> EAGLEventType.Kill,
              Data |-> [killCount |-> DecimalText(last.in.KillCount),
                        isLegendary |-> TrueFalse(last.in.bIsLegendary)],
              Context |-> <<>>, bForceML |-> FALSE]

\* C19: each of the four helpers returns a request with its event type, a
\* data map of exactly its keys ("true"/"false" for a boolean, the decimal
\* text for a number), an empty context and forceMl false; the call
\* dispatches no HTTP request and changes no state of the facade or of a
\* service client.
C19_CreateRequestHelpers ==
    /\ [](last.step \in CreateSteps =>
              /\ last.out = HelperResult
              /\ DOMAIN last.out.Context = {}
              /\ ~last.out.bForceML)
    /\ [][last'.step \in CreateSteps => UNCHANGED <<client, objs, calls, http>>]_vars

\* C19 witness: CreateVictoryRequest(true, 5) returned Victory with
\* {mvp: "true", winStreak: "5"} and no request is in flight
C19_Witness ==
    /\ last.step = "CreateVictoryRequest"
    /\ last.in = [bIsMVP |-> TRUE, WinStreak |-> 5]
    /\ last.out.EventType = EAGLEventType.Victory
    /\ last.out.Data = [mvp |-> "true", winStreak |-> "5"]
    /\ http = <<>>

\* C20: SetPlayerId changes nothing but the facade's player id, which
\* becomes its argument, and SetGameId nothing but its game id:
\* IsInitialized, GetConfig, the three service clients and their
\* url/key/timeout stay as they were and no request is dispatched; both
\* calls are possible whether or not the facade is initialised.
C20_SettersOnlyStore ==
    /\ [](/\ ENABLED SetPlayerId("player-456")
          /\ ENABLED SetGameId("game-1"))
    /\ [][/\ last'.step = "SetPlayerId" =>
                 /\ client' = [client EXCEPT !.PlayerId = last'.InPlayerId]
                 /\ IsInitialized' = IsInitialized
                 /\ GetConfig' = GetConfig
                 /\ UNCHANGED <<objs, calls, http>>
          /\ last'.step = "SetGameId" =>
                 /\ client' = [client EXCEPT !.GameId = last'.InGameId]
                 /\ IsInitialized' = IsInitialized
                 /\ GetConfig' = GetConfig
                 /\ UNCHANGED <<objs, calls, http>>]_vars

\* C20 witness: SetPlayerId stored its argument in a facade that is not
\* initialised and whose game id was set before
C20_Witness ==
    /\ last.step = "SetPlayerId"
    /\ ~IsInitialized
    /\ client.PlayerId = "player-456"
    /\ client.GameId = "game-1"
    /\ objs = <<>>
    /\ http = <<>>

\* the object a getter returned is a service client of the kind asked for
\* on which Initialize(url, key, timeout) has run
InitializedService(p, kind) ==
    /\ p \in DOMAIN objs
    /\ objs[p].kind = kind
    /\ objs[p].inits > 0

\* C21: IsInitialized() is true exactly when the three getters each return
\* a service client that was initialised with url, key and timeout; while
\* IsInitialized() is false the three getters return no client.
C21_NoUninitializedServiceExposed ==
    /\ IsInitialized <=> /\ InitializedService(GetEmotionService, "emotion")
                         /\ InitializedService(GetDialogueService, "dialogue")
                         /\ InitializedService(GetMemoryService, "memory")
    /\ ~IsInitialized => /\ GetEmotionService = 0
                         /\ GetDialogueService = 0
                         /\ GetMemoryService = 0

\* C21 witness: a facade that was initialised and then given a
\* configuration without key still returns its three initialised clients
C21_Witness ==
    /\ last.step = "Initialize"
    /\ GetConfig.ApiKey = ""
    /\ IsInitialized
    /\ InitializedService(GetEmotionService, "emotion")
    /\ InitializedService(GetDialogueService, "dialogue")
    /\ InitializedService(GetMemoryService, "memory")

\* C22: the continuation of a request is never run on a service client
\* that has been destroyed: a request whose client was destroyed while it
\* was outstanding is dropped.
C22_NoContinuationOnDestroyedClient ==
    last.step \in {"complete", "crash"} => ~objs[last.this].destroyed

\* the value a field is to hold after a decode of object o: the value under
\* its key when the key is present with the type, its default otherwise
FieldOf(o, key, ty, default) ==
    IF key \in DOMAIN o /\ o[key].t = ty THEN o[key].v ELSE default

\* C23: for a body that is a JSON object, each scalar field of the decoded
\* response holds the value under its key when the key is present with the
\* right type and its default when the key is missing or holds a value of
\* another type, whatever was done to the other keys.
C23_WrongTypeKeepsDefault ==
    LET o == ReadJson(last.in).v
    IN  /\ last.step = "UAGLDialogueService::DeserializeResponse" =>
               /\ last.out.Dialogue = FieldOf(o, "dialogue", "string", "")
               /\ last.out.Method = FieldOf(o, "method", "string", "")
               /\ last.out.Cost = FieldOf(o, "cost", "number", 0)
               /\ last.out.LatencyMs = FieldOf(o, "latency_ms", "number", 0)
               /\ last.out.bUsedSpecialCase = FieldOf(o, "used_special_case", "bool", FALSE)
               /\ last.out.bCacheHit = FieldOf(o, "cache_hit", "bool", FALSE)
               /\ last.out.MemoryCount = FieldOf(o, "memory_count", "number", 0)
        /\ last.step = "UAGLEmotionService::DeserializeResponse" =>
               /\ last.out.Intensity = FieldOf(o, "intensity", "number", 0)
               /\ last.out.Confidence = FieldOf(o, "confidence", "number", 0)
               /\ last.out.Cost = FieldOf(o, "cost", "number", 0)
               /\ last.out.LatencyMs = FieldOf(o, "latency_ms", "number", 0)
               /\ last.out.Action = FieldOf(o, "action", "string", "")
               /\ last.out.Reasoning = FieldOf(o, "reasoning", "string", "")
               /\ last.out.Method = FieldOf(o, "method", "string", "")
               /\ last.out.bCacheHit = FieldOf(o, "cache_hit", "bool", FALSE)
        /\ last.step = "DeserializeMemory" =>
               /\ last.out.Id = FieldOf(o, "id", "string", "")
               /\ last.out.PlayerId = FieldOf(o, "playerId", "string", "")
               /\ last.out.Content = FieldOf(o, "content", "string", "")
               /\ last.out.Emotion = FieldOf(o, "emotion", "string", "")
               /\ last.out.CreatedAt = FieldOf(o, "createdAt", "string", "")
               /\ last.out.Importance = FieldOf(o, "importance", "number", 0)

\* the elements of the array under key of object o, none when the key is
\* absent or its value is not an array
ArrayOf(o, key) ==
    IF key \in DOMAIN o /\ o[key].t = "array" THEN o[key].v ELSE <<>>

\* an element of results that decodes: an object whose memory is an object
DecodableResult(e) ==
    /\ e.t = "object"
    /\ "memory" \in DOMAIN e.v
    /\ e.v["memory"].t = "object"

\* C24: special_case_reasons, results and memories decode to the empty
\* sequence when the key is absent or not an array, and otherwise to the
\* elements that decode, in array order: the strings of the reasons, the
\* objects of memories, and the objects of results that hold a memory
\* object; the other elements are skipped.
C24_OrderPreservingFilter ==
    LET o == ReadJson(last.in).v
    IN  /\ last.step = "UAGLDialogueService::DeserializeResponse" =>
               LET kept == SelectSeq(ArrayOf(o, "special_case_reasons"),
                                     LAMBDA e : e.t = "string")
               IN  last.out.SpecialCaseReasons = [i \in 1..Len(kept) |-> kept[i].v]
        /\ last.step = "DeserializeMemories" =>
               LET kept == SelectSeq(ArrayOf(o, "memories"), LAMBDA e : e.t = "object")
               IN  last.out = [i \in 1..Len(kept) |-> DeserializeMemory(kept[i].v, last.u)]
        /\ last.step = "DeserializeSearchResults" =>
               LET kept == SelectSeq(ArrayOf(o, "results"), DecodableResult)
               IN  last.out = [i \in 1..Len(kept) |-> SearchResultOf(kept[i].v, last.u)]

\* C25: importance passes through as given in both directions: the encoded
\* CreateMemoryRequest holds the number importance equal to the request's
\* value, and a decoded memory holds the body's importance, for values
\* inside [0, 10], below 0 and above 10 alike.
C25_ImportancePassedThrough ==
    /\ last.step = "SerializeCreateMemoryRequest" =>
           last.out.v["importance"] = [t |-> "number", v |-> last.in.Importance]
    /\ (last.step = "DeserializeMemory" /\ last.in \in ImportanceTexts) =>
           \E n \in Importances :
               /\ last.in = "{importance: " \o FromInt(n) \o "}"
               /\ last.out.Importance = n

\* C25 witness: a request of importance -1 was encoded with importance -1
C25_Witness ==
    /\ last.step = "SerializeCreateMemoryRequest"
    /\ last.in.Importance = -1
    /\ last.out.v["importance"].v = -1

\* the step recorded in l completed a request on a failure path (no success
\* reported by the transport, no response, a status the operation does not
\* accept) or on the decode-failure path (a body that is not a JSON object)
FailurePath(l) ==
    /\ l.step = "complete"
    /\ \/ ~l.bWasSuccessful
       \/ ~l.Response.valid
       \/ l.Response.code \notin Accepted(l.op)
       \/ ~DeserializeOk(ReadJson(l.Response.body))

\* C26: any two responses handed to the handler on failure or decode-failure
\* paths of the same operation are equal field for field, enum fields
\* included: here, those of two completions that follow one another.
C26_FailureResponsesEqual ==
    [][(/\ FailurePath(last)
        /\ FailurePath(last')
        /\ last'.op = last.op
        /\ last.execs # <<>>
        /\ last'.execs # <<>>)
           => last'.execs[1].result = last.execs[1].result]_vars

\* C27: whenever IsInitialized() is true, the three service clients the
\* getters return hold the url, key and timeout of GetConfig().
C27_ConfigMatchesServices ==
    IsInitialized =>
        /\ Triple(objs[GetEmotionService]) =
               <<GetConfig.EmotionServiceUrl, GetConfig.ApiKey, GetConfig.Timeout>>
        /\ Triple(objs[GetDialogueService]) =
               <<GetConfig.DialogueServiceUrl, GetConfig.ApiKey, GetConfig.Timeout>>
        /\ Triple(objs[GetMemoryService]) =
               <<GetConfig.MemoryServiceUrl, GetConfig.ApiKey, GetConfig.Timeout>>

(***************************************************************************)
(* Properties of the capture actor (checked under SpecVision).             *)
(***************************************************************************)

\* the actor after the step
ActorAfter == objs'[1]

\* C28: IsCapturing() reports whether capture is running; StartCapture while
\* capturing and StopCapture while stopped change nothing (the accumulator
\* included), StartCapture from stopped sets capturing and resets the
\* accumulator to 0, StopCapture while capturing only clears the flag, and
\* neither hands a frame to JavaScript or counts as a capture.
C28_StartStopIdempotent ==
    [][/\ last'.step = "StartCapture" =>
              /\ IsCapturing(ActorAfter)
              /\ IsCapturing(Actor) => ActorAfter = Actor
              /\ ~IsCapturing(Actor) =>
                     ActorAfter = [Actor EXCEPT !.bIsCapturing = TRUE,
                                                !.TimeAccumulator = 0]
              /\ StartCapture(ActorAfter) = ActorAfter
       /\ last'.step = "StopCapture" =>
              /\ ~IsCapturing(ActorAfter)
              /\ ~IsCapturing(Actor) => ActorAfter = Actor
              /\ IsCapturing(Actor) =>
                     ActorAfter = [Actor EXCEPT !.bIsCapturing = FALSE]
              /\ StopCapture(ActorAfter) = ActorAfter
       /\ last'.step \in {"StartCapture", "StopCapture"} =>
              /\ ActorAfter.sent = Actor.sent
              /\ ActorAfter.autos = Actor.autos]_vars

\* StartCapture has been called while capture was running with time on the
\* accumulator, and the time is still there
C28_Witness ==
    /\ last.step = "StartCapture"
    /\ IsCapturing(Actor)
    /\ Actor.TimeAccumulator > 0

\* C29: Tick starts a capture only while capturing and only when the time
\* accumulated since StartCapture or since the capture Tick started before
\* has reached CaptureInterval, and then the accumulator is 0; two captures
\* started by Tick are at least CaptureInterval apart, one Tick starts at
\* most one, and while not capturing Tick leaves the accumulator and the
\* frames alone; CaptureNow changes neither the flag nor the accumulator and
\* sends a frame whatever the flag is.
C29_TickCapturesAtInterval ==
    [][/\ last'.step = "Tick" =>
              /\ ActorAfter.autos \in {Actor.autos, Actor.autos + 1}
              /\ ActorAfter.sent - Actor.sent <= ActorAfter.autos - Actor.autos
              /\ ActorAfter.sent >= Actor.sent
              /\ ActorAfter.bIsCapturing = Actor.bIsCapturing
              /\ ActorAfter.autos > Actor.autos =>
                     /\ IsCapturing(Actor)
                     /\ Actor.TimeAccumulator + last'.DeltaTime
                            >= Actor.CaptureInterval
                     /\ ActorAfter.TimeAccumulator = 0
                     /\ Actor.elapsed >= 0 =>
                            Actor.elapsed + last'.DeltaTime
                                >= Actor.CaptureInterval
              /\ (IsCapturing(Actor) /\ ActorAfter.autos = Actor.autos) =>
                     /\ ActorAfter.TimeAccumulator
                            = Actor.TimeAccumulator + last'.DeltaTime
                     /\ ActorAfter.TimeAccumulator < Actor.CaptureInterval
              /\ ~IsCapturing(Actor) =>
                     /\ ActorAfter.autos = Actor.autos
                     /\ ActorAfter.TimeAccumulator = Actor.TimeAccumulator
       /\ last'.step = "CaptureNow" =>
              /\ ActorAfter.bIsCapturing = Actor.bIsCapturing
              /\ ActorAfter.TimeAccumulator = Actor.TimeAccumulator
              /\ ActorAfter.autos = Actor.autos
              /\ ActorAfter.sent \in {Actor.sent, Actor.sent + 1}
              /\ ActorAfter =
                     [CaptureNow([Actor EXCEPT !.bIsCapturing = ~@],
                                 ActorAfter.sent > Actor.sent)
                          EXCEPT !.bIsCapturing = Actor.bIsCapturing]
      ]_vars

\* Tick has started its second capture, a frame has gone out, and capture
\* was stopped and started again in between or not
C29_Witness ==
    /\ last.step = "Tick"
    /\ Actor.autos >= 2
    /\ Actor.elapsed = 0
    /\ Actor.sent >= 1

\* C30: BeginPlay creates the render target and starts capture if and only
\* if bAutoStart is set; EndPlay leaves capture stopped and the render target
\* released; and no step hands a frame to JavaScript while the render target
\* does not exist.
C30_Lifecycle ==
    [][/\ last'.step = "BeginPlay" =>
              /\ ActorAfter.RenderTarget # 0
              /\ IsCapturing(ActorAfter)
                     = (Actor.bAutoStart \/ IsCapturing(Actor))
              /\ ActorAfter = [(IF Actor.bAutoStart
                                THEN StartCapture(Actor) ELSE Actor)
                                   EXCEPT !.RenderTarget = 1,
                                          !.phase = "playing"]
       /\ last'.step = "EndPlay" =>
              /\ ~IsCapturing(ActorAfter)
              /\ ActorAfter.RenderTarget = 0
       /\ ActorAfter.sent # Actor.sent =>
              /\ Actor.RenderTarget # 0
              /\ ActorAfter.RenderTarget # 0
              /\ Actor.phase = "playing"]_vars

\* play has ended after frames went out, and a capture has been asked for
\* since
C30_Witness ==
    /\ Actor.phase = "ended"
    /\ Actor.sent >= 1
    /\ last.step \in {"CaptureNow", "StartCapture"}
    /\ Actor.RenderTarget = 0

=============================================================================
